---- MODULE Spec2Model ----
(***************************************************************************)
(* Model of the quantitative risk-analytics engine (class Analytics) of    *)
(* lil-stock-widget: return series, GARCH(1,1) volatility, Monte Carlo     *)
(* path simulation and the risk statistics derived from the paths.         *)
(*                                                                         *)
(* JavaScript numbers are modelled as decimal floating-point values with a *)
(* four-digit mantissa, a wide exponent range, and the special values NaN  *)
(* and +/-Infinity, so that clamps at 1e-8 and 1e4, divisions by zero and  *)
(* logarithms of non-positive numbers behave as they do in the program.    *)
(***************************************************************************)
EXTENDS Integers, Sequences, FiniteSets, TLC

(***************************************************************************)
(* Numbers: [k, m, e] stands for m * 10^e; a finite non-zero number has    *)
(* 1000 <= |m| <= 9999.                                                    *)
(***************************************************************************)
NaN == [k |-> "nan", m |-> 0, e |-> 0]

PosInf == [k |-> "inf", m |-> 1, e |-> 0]

NegInf == [k |-> "inf", m |-> -1, e |-> 0]

Zero == [k |-> "num", m |-> 0, e |-> 0]

IsNaN(x) == x.k = "nan"

IsInf(x) == x.k = "inf"

IsFinite(x) == x.k = "num"

AbsI(i) == IF i < 0 THEN -i ELSE i

SgnI(i) == IF i < 0 THEN -1 ELSE IF i = 0 THEN 0 ELSE 1

Pow10(n) == CASE n = 0 -> 1 [] n = 1 -> 10 [] n = 2 -> 100 [] n = 3 -> 1000
              [] n = 4 -> 10000 [] n = 5 -> 100000 [] OTHER -> 1000000

RECURSIVE NormAbs(_, _)
NormAbs(a, e) ==
  IF a >= 10000 THEN NormAbs(a \div 10, e + 1)
  ELSE IF a < 1000 THEN NormAbs(a * 10, e - 1)
  ELSE <<a, e>>

\* The number m * 10^e, rounded (toward zero) to four digits; overflow gives
\* an infinity and underflow gives zero, as in IEEE-754 arithmetic.
Num(m, e) ==
  IF m = 0 THEN Zero
  ELSE LET n == NormAbs(AbsI(m), e) IN
       IF n[2] > 300 THEN (IF m > 0 THEN PosInf ELSE NegInf)
       ELSE IF n[2] < -330 THEN Zero
       ELSE [k |-> "num", m |-> SgnI(m) * n[1], e |-> n[2]]

FromInt(i) == Num(i, 0)

One == FromInt(1)

Half == Num(5, -1)

Two == FromInt(2)

Neg(x) == IF IsNaN(x) THEN NaN ELSE [x EXCEPT !.m = -x.m]

AbsF(x) == IF IsNaN(x) THEN NaN ELSE [x EXCEPT !.m = AbsI(x.m)]

Mul(x, y) ==
  IF IsNaN(x) \/ IsNaN(y) THEN NaN
  ELSE IF IsInf(x) \/ IsInf(y)
       THEN (IF x.m = 0 \/ y.m = 0 THEN NaN
             ELSE IF SgnI(x.m) * SgnI(y.m) > 0 THEN PosInf ELSE NegInf)
  ELSE Num(x.m * y.m, x.e + y.e)

Div(x, y) ==
  IF IsNaN(x) \/ IsNaN(y) THEN NaN
  ELSE IF IsInf(x) THEN (IF IsInf(y) THEN NaN
                         ELSE IF SgnI(x.m) * (IF y.m < 0 THEN -1 ELSE 1) > 0
                              THEN PosInf ELSE NegInf)
  ELSE IF IsInf(y) THEN Zero
  ELSE IF y.m = 0 THEN (IF x.m = 0 THEN NaN
                        ELSE IF x.m > 0 THEN PosInf ELSE NegInf)
  ELSE Num(SgnI(x.m) * SgnI(y.m) * ((AbsI(x.m) * 10000) \div AbsI(y.m)),
           x.e - y.e - 4)

\* The exact sum of two finite numbers as an unnormalised <<mantissa, exponent>>;
\* an addend more than five decades below the other is lost to rounding.
AddRaw(x, y) ==
  IF x.m = 0 THEN <<y.m, y.e>>
  ELSE IF y.m = 0 THEN <<x.m, x.e>>
  ELSE LET hi == IF x.e >= y.e THEN x ELSE y
           lo == IF x.e >= y.e THEN y ELSE x
           d == hi.e - lo.e
       IN IF d > 5 THEN <<hi.m, hi.e>>
          ELSE <<hi.m * Pow10(d) + lo.m, lo.e>>

Add(x, y) ==
  IF IsNaN(x) \/ IsNaN(y) THEN NaN
  ELSE IF IsInf(x) THEN (IF IsInf(y) /\ x.m # y.m THEN NaN ELSE x)
  ELSE IF IsInf(y) THEN y
  ELSE LET s == AddRaw(x, y) IN Num(s[1], s[2])

Sub(x, y) == Add(x, Neg(y))

\* x < y for finite numbers, by sign, exponent and mantissa
LtFinite(x, y) ==
  IF x.m <= 0 /\ y.m >= 0 THEN x.m < 0 \/ y.m > 0
  ELSE IF x.m >= 0 /\ y.m <= 0 THEN FALSE
  ELSE IF x.m > 0 THEN x.e < y.e \/ (x.e = y.e /\ x.m < y.m)
  ELSE x.e > y.e \/ (x.e = y.e /\ x.m < y.m)

\* x < y, false when either side is NaN
Lt(x, y) ==
  IF IsNaN(x) \/ IsNaN(y) THEN FALSE
  ELSE IF IsInf(x) THEN x.m < 0 /\ ~(IsInf(y) /\ y.m < 0)
  ELSE IF IsInf(y) THEN y.m > 0
  ELSE LtFinite(x, y)

\* x <= y, false when either side is NaN
Le(x, y) == ~IsNaN(x) /\ ~IsNaN(y) /\ ~Lt(y, x)

Gt(x, y) == Lt(y, x)

Ge(x, y) == Le(y, x)

\* Math.max and Math.min: NaN when either argument is NaN
MathMax(x, y) == IF IsNaN(x) \/ IsNaN(y) THEN NaN ELSE IF Lt(x, y) THEN y ELSE x

MathMin(x, y) == IF IsNaN(x) \/ IsNaN(y) THEN NaN ELSE IF Lt(y, x) THEN y ELSE x

RECURSIVE ISqrtIn(_, _, _)
ISqrtIn(n, lo, hi) ==
  IF lo >= hi THEN lo
  ELSE LET mid == (lo + hi + 1) \div 2 IN
       IF mid * mid <= n THEN ISqrtIn(n, mid, hi) ELSE ISqrtIn(n, lo, mid - 1)

\* the integer square root of 0 <= n < 10^9
ISqrt(n) == ISqrtIn(n, 0, 31622)

\* Math.sqrt
Sqrt(x) ==
  IF IsNaN(x) \/ x.m < 0 THEN NaN
  ELSE IF IsInf(x) \/ x.m = 0 THEN x
  ELSE IF x.e % 2 = 0 THEN Num(ISqrt(x.m * 10000), (x.e - 4) \div 2)
  ELSE Num(ISqrt(x.m * 100000), (x.e - 5) \div 2)

\* Math.pow(x, 2)
Sq(x) == Mul(x, x)

\* e^x for |x| <= 1/2, by its Taylor polynomial of degree four
ExpSmall(x) ==
  LET x2 == Mul(x, x)
      x3 == Mul(x2, x)
      x4 == Mul(x3, x)
  IN Add(Add(One, x),
         Add(Div(x2, Two), Add(Div(x3, Num(6, 0)), Div(x4, Num(24, 0)))))

RECURSIVE ExpFin(_)
ExpFin(x) ==
  IF Le(AbsF(x), Half) THEN ExpSmall(x)
  ELSE LET h == ExpFin(Mul(x, Half)) IN Mul(h, h)

\* Math.exp
Exp(x) ==
  IF IsNaN(x) THEN NaN
  ELSE IF IsInf(x) THEN (IF x.m > 0 THEN PosInf ELSE Zero)
  ELSE ExpFin(x)

Ln10 == Num(2303, -3)

\* ln w for 1 <= w < 2, by the series 2(t + t^3/3 + t^5/5 + t^7/7), t = (w-1)/(w+1)
LnNearOne(w) ==
  LET t == Div(Sub(w, One), Add(w, One))
      t2 == Mul(t, t)
      t3 == Mul(t2, t)
      t5 == Mul(t3, t2)
      t7 == Mul(t5, t2)
  IN Mul(Two,
         Add(Add(t, Div(t3, FromInt(3))), Add(Div(t5, FromInt(5)), Div(t7, FromInt(7)))))

RECURSIVE LnMant(_)
LnMant(y) ==
  IF Lt(y, Two) THEN LnNearOne(y)
  ELSE Mul(Two, LnMant(Sqrt(y)))

\* Math.log
Ln(x) ==
  IF IsNaN(x) \/ x.m < 0 THEN NaN
  ELSE IF IsInf(x) THEN PosInf
  ELSE IF x.m = 0 THEN NegInf
  ELSE Add(LnMant([k |-> "num", m |-> x.m, e |-> -3]),
           Mul(FromInt(x.e + 3), Ln10))

\* Math.floor of a finite number of magnitude below 10^9, as an integer
FloorInt(x) ==
  IF x.e >= 0 THEN x.m * Pow10(x.e)
  ELSE IF x.e < -4 THEN (IF x.m < 0 THEN -1 ELSE 0)
  ELSE x.m \div Pow10(-x.e)

(***************************************************************************)
(* Program constants of class Analytics                                    *)
(***************************************************************************)
MIN_VARIANCE == Num(1, -8)

MAX_VARIANCE == Num(1, 4)

MIN_PRICE == Num(1, -2)

MinPaths == 100

MaxPaths == 10000

MinSteps == 10

MaxSteps == 1000

numBins == 50

PercentileLevels == <<5, 10, 25, 50, 75, 90, 95>>

(***************************************************************************)
(* Bounds of the model                                                     *)
(***************************************************************************)
\* length of the uniform stream behind Math.random(), which is read cyclically
StreamLen == 97

\* period of a generator whose draws recur within one run, so that several
\* paths of the run end at the same price
ShortPeriod == 40

(***************************************************************************)
(* Inputs                                                                  *)
(***************************************************************************)
\* A uniform draw is a grid point k/8 of the open interval (0,1), named by k.
\* A stream is the output of a congruential generator, reduced to the grid; a
\* generator of stride 0 returns the same draw for ever.
Seeds == {0, 3}

Strides == {0, 11}

Streams ==
  {[i \in 1..StreamLen |-> 1 + (((seed + i * stride) % StreamLen) % 7)] :
     seed \in Seeds, stride \in Strides}
    \cup {[i \in 1..ShortPeriod |-> 1 + (((3 + i * 11) % ShortPeriod) % 7)]}

InitialPrices == {Zero, Num(5, -3), FromInt(100)}

Alphas == {Num(-1, -1), Num(1, -1), Num(11, -1)}

Betas == {Num(-1, -1), Num(8, -1), Num(9, -1), Num(11, -1)}

Thetas == {Num(-1, -1), Num(5, -2), Num(11, -1)}

SwitchProbs == {Num(-1, -1), Num(5, -2), Num(11, -1)}

NumPathsChoices == {MinPaths - 1, MinPaths, MinPaths + 1, MaxPaths + 1}

NumStepsChoices == {MinSteps - 1, MinSteps, MinSteps + 1, MaxSteps + 1}

InitialVolatilities == {Zero, Num(8, -1)}

Drifts == {Zero, Num(-1, 6)}

\* calculateReturns: the closes of a price series of at most MaxPrices points
MaxPrices == 3

CloseValues == {Num(-5, 0), Zero, FromInt(100), FromInt(110)}

PriceSeries == UNION {[1..n -> CloseValues] : n \in 0..MaxPrices}

\* calculateGARCHVolatility: a series of at most MaxReturns returns, each a
\* value calculateReturns can return for closes drawn from CloseValues, or a
\* return chosen by the caller
MaxReturns == 3

ReturnValues ==
  {Ln(Div(cur, prev)) : cur \in CloseValues, prev \in {c \in CloseValues : Gt(c, Zero)}}
    \cup {FromInt(150)}

ReturnSeries == UNION {[1..n -> ReturnValues] : n \in 0..MaxReturns}

GarchAlphas == {Num(-1, -1), Zero, Num(1, -1), Num(11, -1)}

GarchBetas == {Num(-1, -1), Zero, Num(8, -1), Num(9, -1), Num(11, -1)}

ParamsChoices ==
  [alpha : Alphas, beta : Betas, theta : Thetas, switchProb : SwitchProbs,
   numPaths : NumPathsChoices, numSteps : NumStepsChoices]

VARIABLES
  \* runMonteCarloSimulation: arguments
  initialPrice, params, initialVolatility, drift,
  \* the uniform stream behind Math.random() and the number of draws taken from it
  stream, rngPos,
  \* runMonteCarloSimulation: position, loop counter and the paths built so far
  pc, path, paths,
  \* calculateStatistics: locals
  finalPrices, sortedPrices,
  \* runMonteCarloSimulation: outcome (a result record, or the error thrown)
  result, thrown,
  \* calculateReturns: argument (the close of each price point), the local
  \* returns, the loop index i, position and error thrown
  prices, returns, retIndex, retPc, retThrown,
  \* calculateGARCHVolatility: arguments, the locals omega, volatilities and t,
  \* position and error thrown
  garchReturns, garchAlpha, garchBeta, garchOmega, volatilities, garchT,
  garchPc, garchThrown,
  \* runStressTest: argument scenarios (the other arguments are those of
  \* runMonteCarloSimulation), the number of scenarios done, the local results,
  \* position and error thrown
  scenarios, stressDone, results, stressPc, stressThrown,
  \* calculatePerformanceMetrics: argument benchmarkReturns (the argument
  \* prices is that of calculateReturns), the metrics returned, position and
  \* error thrown
  benchmarkReturns, metrics, perfPc, perfThrown,
  \* generateMarkovRegime: arguments returns and switchProb, the locals regimes,
  \* currentRegime and t, position and error thrown
  markovReturns, switchProb, regimes, currentRegime, markovT, markovPc,
  markovThrown,
  \* analyzeRegime: arguments returns and regimes, the analysis returned,
  \* position and error thrown
  analyzeReturns, analyzeRegimes, analysis, analyzePc, analyzeThrown,
  \* generateRecommendations: arguments indicators, fundamentals and
  \* currentPrice (the closes of the argument prices are in prices), the
  \* analysis returned, position and error thrown
  indicators, fundamentals, currentPrice, recommendations, recPc, recThrown,
  \* calculateTrendAndDrift: argument theta (the closes of the argument prices
  \* are in prices), the result returned, position and error thrown
  trendTheta, trendResult, trendPc, trendThrown,
  \* the simulation worker: the message received (e.data), the stream behind
  \* Math.random(), the message posted back and the position
  workerData, workerStream, workerPosted, workerPc,
  \* the dashboard: the state of App (stock data and parameter objects are
  \* numbered, analyticsResult is the number of the worker whose result is
  \* shown), the Worker objects created (workerRef.current is the last one),
  \* the fetches pending, whether an API key is set, whether App is mounted
  stockData, simulationParams, analyticsResult, loading, error, workers, fetches,
  apiKey, mounted

mcArgs == <<initialPrice, params, initialVolatility, drift>>

mcVars == <<initialPrice, params, initialVolatility, drift, stream, rngPos,
            pc, path, paths, finalPrices, sortedPrices, result, thrown>>

retVars == <<prices, returns, retIndex, retPc, retThrown>>

garchVars == <<garchReturns, garchAlpha, garchBeta, garchOmega, volatilities,
               garchT, garchPc, garchThrown>>

stressVars == <<scenarios, stressDone, results, stressPc, stressThrown>>

perfVars == <<benchmarkReturns, metrics, perfPc, perfThrown>>

markovVars == <<markovReturns, switchProb, regimes, currentRegime, markovT,
                markovPc, markovThrown>>

analyzeVars == <<analyzeReturns, analyzeRegimes, analysis, analyzePc, analyzeThrown>>

recVars == <<indicators, fundamentals, currentPrice, recommendations, recPc,
             recThrown>>

trendVars == <<trendTheta, trendResult, trendPc, trendThrown>>

analyticsVars == <<mcVars, retVars, garchVars, stressVars, perfVars, markovVars,
                   analyzeVars, recVars, trendVars>>

workerVars == <<workerData, workerStream, workerPosted, workerPc>>

dashVars == <<stockData, simulationParams, analyticsResult, loading, error, workers,
              fetches, apiKey, mounted>>

appVars == <<workerVars, dashVars>>

vars == <<analyticsVars, appVars>>

\* what the actions of one function leave alone
otherThanMC == <<retVars, garchVars, stressVars, perfVars, markovVars, analyzeVars,
  recVars,
  trendVars,
  appVars>>

otherThanReturns == <<mcVars, garchVars, stressVars, perfVars, markovVars,
                      analyzeVars,
  recVars,
  trendVars,
  appVars>>

otherThanGarch == <<mcVars, retVars, stressVars, perfVars, markovVars, analyzeVars,
  recVars,
  trendVars,
  appVars>>

otherThanStress == <<pc, path, paths, finalPrices, sortedPrices, result, thrown,
                     retVars, garchVars, perfVars, markovVars, analyzeVars,
  recVars,
  trendVars,
  appVars>>

otherThanPerf == <<mcVars, returns, retIndex, retPc, retThrown, garchVars,
                   stressVars, markovVars, analyzeVars,
  recVars,
  trendVars,
  appVars>>

otherThanMarkov == <<mcArgs, pc, path, paths, finalPrices, sortedPrices, result,
                     thrown, retVars, garchVars, stressVars, perfVars, analyzeVars,
  recVars,
  trendVars,
  appVars>>

otherThanRec == <<mcVars, returns, retIndex, retPc, retThrown, garchVars,
                  stressVars, perfVars, markovVars, analyzeVars,
  trendVars,
  appVars>>

otherThanTrend == <<mcVars, returns, retIndex, retPc, retThrown, garchVars,
                    stressVars, perfVars, markovVars, analyzeVars, recVars,
  appVars>>

otherThanAnalyze == <<mcVars, retVars, garchVars, stressVars, perfVars, markovVars,
  recVars,
  trendVars,
  appVars>>

NoResult == [none |-> TRUE]

(***************************************************************************)
(* validateParams: the message of the first failing check, "" when none    *)
(***************************************************************************)
\* validateParams without its check of switchProb
validateParamsNoSwitchProb(p) ==
  IF Lt(p.alpha, Zero) \/ Gt(p.alpha, One) THEN "Alpha must be between 0 and 1"
  ELSE IF Lt(p.beta, Zero) \/ Gt(p.beta, One) THEN "Beta must be between 0 and 1"
  ELSE IF Ge(Add(p.alpha, p.beta), One)
       THEN "Alpha + Beta must be less than 1 for GARCH stability"
  ELSE IF Lt(p.theta, Zero) \/ Gt(p.theta, One) THEN "Theta must be between 0 and 1"
  ELSE IF p.numPaths < MinPaths \/ p.numPaths > MaxPaths
       THEN "Number of paths must be between 100 and 10000"
  ELSE IF p.numSteps < MinSteps \/ p.numSteps > MaxSteps
       THEN "Number of steps must be between 10 and 1000"
  ELSE ""

validateParams(p) ==
  IF Lt(p.alpha, Zero) \/ Gt(p.alpha, One) THEN "Alpha must be between 0 and 1"
  ELSE IF Lt(p.beta, Zero) \/ Gt(p.beta, One) THEN "Beta must be between 0 and 1"
  ELSE IF Ge(Add(p.alpha, p.beta), One)
       THEN "Alpha + Beta must be less than 1 for GARCH stability"
  ELSE IF Lt(p.theta, Zero) \/ Gt(p.theta, One) THEN "Theta must be between 0 and 1"
  ELSE IF Lt(p.switchProb, Zero) \/ Gt(p.switchProb, One)
       THEN "Switch probability must be between 0 and 1"
  ELSE IF p.numPaths < MinPaths \/ p.numPaths > MaxPaths
       THEN "Number of paths must be between 100 and 10000"
  ELSE IF p.numSteps < MinSteps \/ p.numSteps > MaxSteps
       THEN "Number of steps must be between 10 and 1000"
  ELSE ""

\* the checks at the head of runMonteCarloSimulation, in program order
ValidateInputs(price, p, vol) ==
  IF validateParams(p) # "" THEN validateParams(p)
  ELSE IF Le(price, Zero) THEN "Initial price must be positive"
  ELSE IF Le(vol, Zero) THEN "Initial volatility must be positive"
  ELSE ""

(***************************************************************************)
(* randomNormal: Box-Muller from the next two uniform draws                *)
(***************************************************************************)
Uniform(k) == Div(FromInt(k), FromInt(8))

\* Math.cos(2 * Math.PI * v) at the grid points v = k/8
CosTurn(k) ==
  CASE k = 0 -> One
    [] k = 1 -> Num(7071, -4)
    [] k = 2 -> Zero
    [] k = 3 -> Num(-7071, -4)
    [] k = 4 -> Num(-1, 0)
    [] k = 5 -> Num(-7071, -4)
    [] k = 6 -> Zero
    [] OTHER -> Num(7071, -4)

\* the draw at position pos (counted from 0) of the stream
DrawAt(s, pos) == s[(pos % Len(s)) + 1]

\* Math.sqrt(-2 * Math.log(u)) * Math.cos(2 * Math.PI * v) at the grid points
\* u = a/8 and v = b/8
BoxMuller ==
  [a \in 1..7, b \in 0..7 |->
     Mul(Sqrt(Mul(FromInt(-2), Ln(Uniform(a)))), CosTurn(b))]

\* a Box-Muller transform that takes one draw and uses it twice
randomNormalOneDraw(s, pos) ==
  [z |-> BoxMuller[DrawAt(s, pos), DrawAt(s, pos)], pos |-> pos + 1]

\* the value returned and the stream position after the two Math.random() calls
randomNormal(s, pos) ==
  [z |-> BoxMuller[DrawAt(s, pos), DrawAt(s, pos + 1)], pos |-> pos + 2]

(***************************************************************************)
(* One step of the inner loop of runMonteCarloSimulation                   *)
(***************************************************************************)
Dt == Div(One, FromInt(252))

SqrtDt == Sqrt(Dt)

Omega(vol, p) == Mul(Mul(vol, vol), Sub(Sub(One, p.alpha), p.beta))

StepReturn(vol, drf, z) ==
  Add(Sub(Mul(drf, Dt), Mul(Mul(Mul(Half, vol), vol), Dt)),
      Mul(Mul(vol, SqrtDt), z))

\* the price floor applied to every stepped price
FloorPrice(x) == IF Lt(x, MIN_PRICE) THEN MIN_PRICE ELSE x

StepPrice(price, ret) == FloorPrice(Mul(price, Exp(ret)))

BoundVariance(variance) == MathMax(MathMin(variance, MAX_VARIANCE), MIN_VARIANCE)

StepVolatility(vol, ret, omega, p) ==
  Sqrt(BoundVariance(Add(Add(omega, Mul(p.alpha, Sq(ret))), Mul(p.beta, Sq(vol)))))

\* lines 201-220: one iteration of the inner loop, on the locals of a path
\* [prices, price, vol] and the stream position pos
SimStep(st, s, omega, drf, p) ==
  LET rn == randomNormal(s, st.pos)
      ret == StepReturn(st.vol, drf, rn.z)
      price == StepPrice(st.price, ret)
  IN [prices |-> Append(st.prices, price),
      price |-> price,
      vol |-> StepVolatility(st.vol, ret, omega, p),
      pos |-> rn.pos]

RECURSIVE SimSteps(_, _, _, _, _, _)
SimSteps(st, n, s, omega, drf, p) ==
  IF n = 0 THEN st
  ELSE SimSteps(SimStep(st, s, omega, drf, p), n - 1, s, omega, drf, p)

\* a path that starts from the volatility the path before it ended with
SimulatePathCarrying(price0, vol0, drf, p, s, pos) ==
  LET before == IF pos < 2 * p.numSteps THEN vol0
                ELSE SimSteps([prices |-> <<price0>>, price |-> price0, vol |-> vol0,
                               pos |-> pos - 2 * p.numSteps],
                              p.numSteps, s, Omega(vol0, p), drf, p).vol
  IN SimSteps([prices |-> <<price0>>, price |-> price0, vol |-> before, pos |-> pos],
              p.numSteps, s, Omega(vol0, p), drf, p)

\* a path that forgets to record its seed price
PathStartNoSeed(price0, vol0, pos) ==
  [prices |-> <<>>, price |-> price0, vol |-> vol0, pos |-> pos]

\* lines 197-199: the locals at the head of a path
PathStart(price0, vol0, pos) ==
  [prices |-> <<price0>>, price |-> price0, vol |-> vol0, pos |-> pos]

\* lines 197-220: one path, from the stream position pos
SimulatePath(price0, vol0, drf, p, s, pos) ==
  SimSteps(PathStart(price0, vol0, pos), p.numSteps, s, Omega(vol0, p), drf, p)

(***************************************************************************)
(* calculateStatistics                                                     *)
(***************************************************************************)
FinalPrices(ps) == [i \in 1..Len(ps) |-> ps[i][Len(ps[i])]]

\* how many elements of the ascending sequence b sort before x: those less
\* than x and, when ties is TRUE, also those equal to x; by bisection, with the
\* elements up to lo known to sort before x and those after hi known not to
RECURSIVE CountBefore(_, _, _, _, _)
CountBefore(b, x, ties, lo, hi) ==
  IF lo >= hi THEN lo
  ELSE LET mid == (lo + hi + 1) \div 2 IN
       IF (IF ties THEN ~Lt(x, b[mid]) ELSE Lt(b[mid], x))
       THEN CountBefore(b, x, ties, mid, hi)
       ELSE CountBefore(b, x, ties, lo, mid - 1)

\* the stable merge of two ascending sequences: an element of a goes after the
\* smaller elements of b, an element of b after those of a that are not greater
Merge(a, b) ==
  LET posA == [i \in 1..Len(a) |-> i + CountBefore(b, a[i], FALSE, 0, Len(b))]
      posB == [j \in 1..Len(b) |-> j + CountBefore(a, b[j], TRUE, 0, Len(a))]
  IN [k \in 1..(Len(a) + Len(b)) |->
        IF \E i \in 1..Len(a) : posA[i] = k
        THEN a[CHOOSE i \in 1..Len(a) : posA[i] = k]
        ELSE b[CHOOSE j \in 1..Len(b) : posB[j] = k]]

\* [...finalPrices].sort((a, b) => a - b): ascending and stable
RECURSIVE SortAsc(_)
SortAsc(s) ==
  IF Len(s) <= 1 THEN s
  ELSE LET h == Len(s) \div 2
       IN Merge(SortAsc(SubSeq(s, 1, h)), SortAsc(SubSeq(s, h + 1, Len(s))))

RECURSIVE SumFirst(_, _)
SumFirst(s, n) == IF n = 0 THEN Zero ELSE Add(SumFirst(s, n - 1), s[n])

\* finalPrices.filter(price => price >= initialPrice * 1.2).length
Upside20Count(final, price0) ==
  Cardinality({i \in 1..Len(final) : Ge(final[i], Mul(price0, Num(12, -1)))})

\* a downside count that forgets the factor 0.9
DownsideAnyCount(final, price0) ==
  Cardinality({i \in 1..Len(final) : Le(final[i], price0)})

\* finalPrices.filter(price => price <= initialPrice * 0.9).length
Downside10Count(final, price0) ==
  Cardinality({i \in 1..Len(final) : Le(final[i], Mul(price0, Num(9, -1)))})

BinSize(sorted) == Div(Sub(sorted[Len(sorted)], sorted[1]), FromInt(numBins))

\* Math.min(Math.floor((price - minPrice) / binSize), numBins - 1); -1 stands
\* for NaN, which is no index of the histogram
BinIndex(price, sorted) ==
  LET q == Div(Sub(price, sorted[1]), BinSize(sorted)) IN
  IF IsNaN(q) THEN -1
  ELSE IF Ge(q, FromInt(numBins - 1)) THEN numBins - 1
  ELSE FloorInt(q)

\* histogram[b].count for the bins b = 0 .. numBins-1, held at positions 1 .. numBins
Histogram(final, sorted) ==
  LET idx == [i \in 1..Len(final) |-> BinIndex(final[i], sorted)]
  IN [b \in 1..numBins |->
        [bin |-> Add(sorted[1], Mul(FromInt(b - 1), BinSize(sorted))),
         count |-> Cardinality({i \in 1..Len(final) : idx[i] = b - 1})]]

\* a percentile index taken over numPaths instead of numPaths - 1
PercentileIndexOfCount(p, n) == (p * n) \div 100

\* Math.floor((p / 100) * (numPaths - 1)); the floating-point product floors to
\* the same integer as the exact one for every numPaths in 100..10000
PercentileIndex(p, n) == (p * (n - 1)) \div 100

Percentiles(sorted) ==
  [j \in 1..Len(PercentileLevels) |->
     sorted[PercentileIndex(PercentileLevels[j], Len(sorted)) + 1]]

\* a VaR index taken over numPaths - 1, as the percentile indices are
Var95IndexOfLast(n) == (5 * (n - 1)) \div 100

\* Math.floor(0.05 * numPaths) and Math.floor(0.01 * numPaths)
Var95Index(n) == (5 * n) \div 100

Var99Index(n) == n \div 100

ExpectedShortfall(sorted, price0, idx) ==
  Sub(price0, Div(SumFirst(sorted, idx + 1), FromInt(idx + 1)))

\* histogram[binIndex].count++ throws a TypeError when binIndex is no index
StatisticsThrow(final, sorted) ==
  \E i \in 1..Len(final) : BinIndex(final[i], sorted) \notin 0..(numBins - 1)

\* the record returned by calculateStatistics, from its locals
StatisticsResult(ps, price0, final, sorted) ==
  LET n == Len(ps)
  IN [paths |-> ps,
      probabilities |->
        [upside20 |-> Div(FromInt(Upside20Count(final, price0)), FromInt(n)),
         downside10 |-> Div(FromInt(Downside10Count(final, price0)), FromInt(n))],
      histogram |-> Histogram(final, sorted),
      percentiles |-> Percentiles(sorted),
      var95 |-> Sub(price0, sorted[Var95Index(n) + 1]),
      var99 |-> Sub(price0, sorted[Var99Index(n) + 1]),
      expectedShortfall95 |-> ExpectedShortfall(sorted, price0, Var95Index(n)),
      expectedShortfall99 |-> ExpectedShortfall(sorted, price0, Var99Index(n)),
      currentVolatility |-> Zero,
      trend |-> Zero,
      drift |-> Zero]

(***************************************************************************)
(* runMonteCarloSimulation as a state machine                              *)
(***************************************************************************)
MCIdle ==
  /\ initialPrice = Zero
  /\ params = [alpha |-> Zero, beta |-> Zero, theta |-> Zero, switchProb |-> Zero,
               numPaths |-> 0, numSteps |-> 0]
  /\ initialVolatility = Zero
  /\ drift = Zero
  /\ stream = <<>>
  /\ rngPos = 0
  /\ pc = "idle"
  /\ path = 0
  /\ paths = <<>>
  /\ finalPrices = <<>>
  /\ sortedPrices = <<>>
  /\ result = NoResult
  /\ thrown = ""

MCInit ==
  /\ initialPrice \in InitialPrices
  /\ params \in ParamsChoices
  /\ initialVolatility \in InitialVolatilities
  /\ drift \in Drifts
  /\ stream = <<>>
  /\ rngPos = 0
  /\ pc = "call"
  /\ path = 0
  /\ paths = <<>>
  /\ finalPrices = <<>>
  /\ sortedPrices = <<>>
  /\ result = NoResult
  /\ thrown = ""

\* lines 178-187: a failing check throws before anything is simulated
Reject ==
  /\ pc = "call"
  /\ ValidateInputs(initialPrice, params, initialVolatility) # ""
  /\ pc' = "thrown"
  /\ thrown' = ValidateInputs(initialPrice, params, initialVolatility)
  /\ UNCHANGED <<mcArgs, stream, rngPos, path, paths, finalPrices, sortedPrices,
                 result>>
  /\ UNCHANGED otherThanMC

\* lines 189-196: all checks passed and the outer loop is entered; the draws
\* that Math.random() will return during this run are fixed here
Accept ==
  /\ pc = "call"
  /\ ValidateInputs(initialPrice, params, initialVolatility) = ""
  /\ stream' \in Streams
  /\ rngPos' = 0
  /\ pc' = "paths"
  /\ path' = 0
  /\ paths' = <<>>
  /\ UNCHANGED <<mcArgs, finalPrices, sortedPrices, result, thrown>>
  /\ UNCHANGED otherThanMC

\* lines 196-223: one iteration of the outer loop
SimulateOnePath ==
  /\ pc = "paths"
  /\ path < params.numPaths
  /\ \E st \in {SimulatePath(initialPrice, initialVolatility, drift, params,
                              stream, rngPos)} :
       /\ paths' = Append(paths, st.prices)
       /\ rngPos' = st.pos
  /\ path' = path + 1
  /\ UNCHANGED <<mcArgs, stream, pc, finalPrices, sortedPrices, result, thrown>>
  /\ UNCHANGED otherThanMC

\* line 225 and lines 459-474: calculateStatistics is entered; the terminal
\* prices are collected and sorted
BeginStatistics ==
  /\ pc = "paths"
  /\ path >= params.numPaths
  /\ \E final \in {FinalPrices(paths)} :
       /\ finalPrices' = final
       /\ sortedPrices' = SortAsc(final)
  /\ pc' = "statistics"
  /\ UNCHANGED <<mcArgs, stream, rngPos, path, paths, result, thrown>>
  /\ UNCHANGED otherThanMC

\* lines 476-518: the histogram is filled (which throws when a bin index is
\* NaN) and the result is returned
FinishStatistics ==
  /\ pc = "statistics"
  /\ IF StatisticsThrow(finalPrices, sortedPrices)
     THEN /\ pc' = "thrown"
          /\ thrown' = "TypeError"
          /\ UNCHANGED result
     ELSE /\ pc' = "returned"
          /\ result' = StatisticsResult(paths, initialPrice, finalPrices, sortedPrices)
          /\ UNCHANGED thrown
  /\ UNCHANGED <<mcArgs, stream, rngPos, path, paths, finalPrices, sortedPrices>>
  /\ UNCHANGED otherThanMC

(***************************************************************************)
(* calculateReturns as a state machine                                     *)
(***************************************************************************)
\* a return with its quotient inverted
LogReturnInverted(prev, cur) == Ln(Div(prev, cur))

\* Math.log(prices[i].close / prices[i - 1].close)
LogReturn(prev, cur) == Ln(Div(cur, prev))

RetIdle ==
  /\ prices = <<>>
  /\ returns = <<>>
  /\ retIndex = 0
  /\ retPc = "idle"
  /\ retThrown = ""

RetInit ==
  /\ prices \in PriceSeries
  /\ returns = <<>>
  /\ retIndex = 0
  /\ retPc = "call"
  /\ retThrown = ""

\* lines 44-46
ReturnsTooShort ==
  /\ retPc = "call"
  /\ Len(prices) < 2
  /\ retPc' = "thrown"
  /\ retThrown' = "Need at least 2 price points to calculate returns"
  /\ UNCHANGED <<prices, returns, retIndex>>
  /\ UNCHANGED otherThanReturns

\* lines 48-49: the loop is entered with i = 1
ReturnsEnter ==
  /\ retPc = "call"
  /\ Len(prices) >= 2
  /\ retPc' = "loop"
  /\ returns' = <<>>
  /\ retIndex' = 1
  /\ UNCHANGED <<prices, retThrown>>
  /\ UNCHANGED otherThanReturns

\* lines 50-52: prices[i - 1].close is the element at position retIndex
ReturnsBadClose ==
  /\ retPc = "loop"
  /\ retIndex < Len(prices)
  /\ Le(prices[retIndex], Zero)
  /\ retPc' = "thrown"
  /\ retThrown' = "Invalid price data: non-positive close price"
  /\ UNCHANGED <<prices, returns, retIndex>>
  /\ UNCHANGED otherThanReturns

\* lines 53-54: prices[i].close is the element at position retIndex + 1
ReturnsStep ==
  /\ retPc = "loop"
  /\ retIndex < Len(prices)
  /\ ~Le(prices[retIndex], Zero)
  /\ returns' = Append(returns, LogReturn(prices[retIndex], prices[retIndex + 1]))
  /\ retIndex' = retIndex + 1
  /\ UNCHANGED <<prices, retPc, retThrown>>
  /\ UNCHANGED otherThanReturns

\* line 56
ReturnsReturn ==
  /\ retPc = "loop"
  /\ retIndex >= Len(prices)
  /\ retPc' = "returned"
  /\ UNCHANGED <<prices, returns, retIndex, retThrown>>
  /\ UNCHANGED otherThanReturns

(***************************************************************************)
(* calculateGARCHVolatility as a state machine                             *)
(***************************************************************************)
\* a parameter check that forgets the bound on alpha + beta
GarchParamsInvalidNoSum(alpha, beta) == Lt(alpha, Zero) \/ Lt(beta, Zero)

\* line 65
GarchParamsInvalid(alpha, beta) ==
  Lt(alpha, Zero) \/ Lt(beta, Zero) \/ Ge(Add(alpha, beta), One)

\* line 74: the single-return case
SingleVolatility(r) == Sqrt(MathMax(Sq(r), MIN_VARIANCE))

\* line 79
MeanReturn(rs) == Div(SumFirst(rs, Len(rs)), FromInt(Len(rs)))

\* line 80
SampleVar(rs) ==
  LET mean == MeanReturn(rs)
      dev == [k \in 1..Len(rs) |-> Sq(Sub(rs[k], mean))]
  IN Div(SumFirst(dev, Len(rs)), FromInt(Len(rs) - 1))

\* line 83
AdjustedSampleVar(rs) == MathMax(SampleVar(rs), MIN_VARIANCE)

\* line 84
GarchOmega(rs, alpha, beta) ==
  Mul(AdjustedSampleVar(rs), Sub(Sub(One, alpha), beta))

\* lines 91-95: volatilities[t] from returns[t - 1] and volatilities[t - 1]
GarchVolatility(omega, alpha, beta, r, vol) ==
  Sqrt(BoundVariance(Add(Add(omega, Mul(alpha, Sq(r))), Mul(beta, Sq(vol)))))

GarchIdle ==
  /\ garchReturns = <<>>
  /\ garchAlpha = Zero
  /\ garchBeta = Zero
  /\ garchOmega = Zero
  /\ volatilities = <<>>
  /\ garchT = 0
  /\ garchPc = "idle"
  /\ garchThrown = ""

GarchInit ==
  /\ garchReturns \in ReturnSeries
  /\ garchAlpha \in GarchAlphas
  /\ garchBeta \in GarchBetas
  /\ garchOmega = Zero
  /\ volatilities = <<>>
  /\ garchT = 0
  /\ garchPc = "call"
  /\ garchThrown = ""

\* lines 60-62
GarchNoData ==
  /\ garchPc = "call"
  /\ Len(garchReturns) = 0
  /\ garchPc' = "thrown"
  /\ garchThrown' = "No returns data provided"
  /\ UNCHANGED <<garchReturns, garchAlpha, garchBeta, garchOmega, volatilities, garchT>>
  /\ UNCHANGED otherThanGarch

\* lines 65-67
GarchBadParams ==
  /\ garchPc = "call"
  /\ Len(garchReturns) # 0
  /\ GarchParamsInvalid(garchAlpha, garchBeta)
  /\ garchPc' = "thrown"
  /\ garchThrown' = "Invalid GARCH parameters: alpha + beta must be < 1"
  /\ UNCHANGED <<garchReturns, garchAlpha, garchBeta, garchOmega, volatilities, garchT>>
  /\ UNCHANGED otherThanGarch

\* lines 73-76
GarchSingle ==
  /\ garchPc = "call"
  /\ Len(garchReturns) = 1
  /\ ~GarchParamsInvalid(garchAlpha, garchBeta)
  /\ volatilities' = <<SingleVolatility(garchReturns[1])>>
  /\ garchPc' = "returned"
  /\ UNCHANGED <<garchReturns, garchAlpha, garchBeta, garchOmega, garchT, garchThrown>>
  /\ UNCHANGED otherThanGarch

\* lines 79-90: omega and volatilities[0]; the loop is entered with t = 1
GarchSeed ==
  /\ garchPc = "call"
  /\ Len(garchReturns) > 1
  /\ ~GarchParamsInvalid(garchAlpha, garchBeta)
  /\ garchOmega' = GarchOmega(garchReturns, garchAlpha, garchBeta)
  /\ volatilities' = <<Sqrt(AdjustedSampleVar(garchReturns))>>
  /\ garchT' = 1
  /\ garchPc' = "loop"
  /\ UNCHANGED <<garchReturns, garchAlpha, garchBeta, garchThrown>>
  /\ UNCHANGED otherThanGarch

\* lines 90-96: returns[t - 1] and volatilities[t - 1] are the elements at
\* position garchT
GarchStep ==
  /\ garchPc = "loop"
  /\ garchT < Len(garchReturns)
  /\ volatilities' =
       Append(volatilities,
              GarchVolatility(garchOmega, garchAlpha, garchBeta,
                              garchReturns[garchT], volatilities[garchT]))
  /\ garchT' = garchT + 1
  /\ UNCHANGED <<garchReturns, garchAlpha, garchBeta, garchOmega, garchPc, garchThrown>>
  /\ UNCHANGED otherThanGarch

\* line 98
GarchReturn ==
  /\ garchPc = "loop"
  /\ garchT >= Len(garchReturns)
  /\ garchPc' = "returned"
  /\ UNCHANGED <<garchReturns, garchAlpha, garchBeta, garchOmega, volatilities,
                 garchT, garchThrown>>
  /\ UNCHANGED otherThanGarch

(***************************************************************************)
(* runStressTest as a state machine                                        *)
(***************************************************************************)
\* the scenarios a caller may pass: at most MaxScenarios of them
MaxScenarios == 2

ScenarioChoices ==
  {[name |-> "crash", volatilityShock |-> Num(15, -1),
    driftShock |-> Num(-5, -1), correlationShock |-> Zero],
   [name |-> "contagion", volatilityShock |-> Num(15, -1),
    driftShock |-> Num(-5, -1), correlationShock |-> Num(9, -1)],
   [name |-> "freeze", volatilityShock |-> Zero,
    driftShock |-> Zero, correlationShock |-> Zero]}

ScenarioLists == UNION {[1..n -> ScenarioChoices] : n \in 0..MaxScenarios}

\* initialPrice and drift of a call: a rejected price, an ordinary price, and a
\* price far above the level its drift brings the paths down to
StressPriceDrifts ==
  {<<Zero, Zero>>, <<FromInt(100), Zero>>, <<Num(1, 7), FromInt(-400)>>}

StressParamsChoices ==
  {[alpha |-> Num(1, -1), beta |-> Num(8, -1), theta |-> Num(5, -2),
    switchProb |-> Num(5, -2), numPaths |-> n, numSteps |-> MinSteps] :
     n \in {MinPaths - 1, MinPaths}}

\* lines 196-223 of runMonteCarloSimulation as one value: path k (counted from
\* 0) is simulated from the draw 2 * numSteps * k after the position pos
SimulationPaths(price, p, vol, drf, s, pos) ==
  [k \in 1..p.numPaths |->
     SimulatePath(price, vol, drf, p, s, pos + 2 * p.numSteps * (k - 1)).prices]

\* calculateStatistics as one value: the result returned or the error thrown
calculateStatistics(ps, price0) ==
  CHOOSE out \in
    {IF StatisticsThrow(fs[1], fs[2])
     THEN [thrown |-> "TypeError", result |-> NoResult]
     ELSE [thrown |-> "", result |-> StatisticsResult(ps, price0, fs[1], fs[2])] :
       fs \in {<<final, SortAsc(final)>> : final \in {FinalPrices(ps)}}} : TRUE

\* a whole call of runMonteCarloSimulation with the stream at position pos: the
\* error thrown ("" when none), the result returned and the stream position
\* afterwards
runMonteCarloSimulation(price, p, vol, drf, s, pos) ==
  IF ValidateInputs(price, p, vol) # ""
  THEN [thrown |-> ValidateInputs(price, p, vol), result |-> NoResult, pos |-> pos]
  ELSE CHOOSE out \in
         {[thrown |-> st.thrown, result |-> st.result,
           pos |-> pos + 2 * p.numSteps * p.numPaths] :
            st \in {calculateStatistics(ps, price) :
                      ps \in {SimulationPaths(price, p, vol, drf, s, pos)}}} : TRUE

\* a stressed volatility that ignores the shock
UnstressedVolatility(vol, scenario) == vol

\* line 242
StressedVolatility(vol, scenario) == Mul(vol, scenario.volatilityShock)

\* line 243
StressedDrift(drf, scenario) == Add(drf, scenario.driftShock)

\* lines 254-255
ProbabilityOfLoss(ps, price0) ==
  Div(FromInt(Cardinality({k \in 1..Len(ps) : Lt(ps[k][Len(ps[k])], price0)})),
      FromInt(Len(ps)))

\* lines 416-424: the inner loop of calculateMaxDrawdown from position i of a
\* path, with the locals peak and drawdown
RECURSIVE PathDrawdown(_, _, _, _)
PathDrawdown(pth, i, peak, drawdown) ==
  IF i > Len(pth) THEN drawdown
  ELSE LET newPeak == IF Gt(pth[i], peak) THEN pth[i] ELSE peak
           currentDrawdown == Div(Sub(newPeak, pth[i]), newPeak)
       IN PathDrawdown(pth, i + 1, newPeak,
                       IF Gt(currentDrawdown, drawdown) THEN currentDrawdown
                       ELSE drawdown)

\* lines 409-432: the largest drawdown of any path, 0 when none is greater
calculateMaxDrawdown(ps, price0) ==
  LET downs == {PathDrawdown(ps[k], 1, price0, Zero) : k \in 1..Len(ps)}
      above == {d \in downs : Gt(d, Zero)}
  IN IF above = {} THEN Zero
     ELSE CHOOSE d \in above : \A e \in above : Le(e, d)

\* lines 258-266
StressResult(scenario, res, price0) ==
  [scenario |-> scenario,
   var95 |-> res.var95,
   var99 |-> res.var99,
   expectedShortfall95 |-> res.expectedShortfall95,
   expectedShortfall99 |-> res.expectedShortfall99,
   probabilityOfLoss |-> ProbabilityOfLoss(res.paths, price0),
   maxDrawdown |-> calculateMaxDrawdown(res.paths, price0)]

StressIdle ==
  /\ scenarios = <<>>
  /\ stressDone = 0
  /\ results = <<>>
  /\ stressPc = "idle"
  /\ stressThrown = ""

\* a call of runStressTest; the draws Math.random() will return are fixed
StressInit ==
  /\ \E pd \in StressPriceDrifts :
       /\ initialPrice = pd[1]
       /\ drift = pd[2]
  /\ params \in StressParamsChoices
  /\ initialVolatility = Num(8, -1)
  /\ stream \in {[i \in 1..StreamLen |-> 1 + (((i * stride) % StreamLen) % 7)] :
                   stride \in Strides}
  /\ rngPos = 0
  /\ pc = "idle"
  /\ path = 0
  /\ paths = <<>>
  /\ finalPrices = <<>>
  /\ sortedPrices = <<>>
  /\ result = NoResult
  /\ thrown = ""
  /\ scenarios \in ScenarioLists
  /\ stressDone = 0
  /\ results = <<>>
  /\ stressPc = "call"
  /\ stressThrown = ""

\* lines 237-239: results = [] and the loop over the scenarios is entered
StressEnter ==
  /\ stressPc = "call"
  /\ results' = <<>>
  /\ stressDone' = 0
  /\ stressPc' = "loop"
  /\ UNCHANGED <<mcArgs, stream, rngPos, scenarios, stressThrown>>
  /\ UNCHANGED otherThanStress

\* lines 239-266: one scenario: the simulation is run with the stressed
\* volatility and drift and a copy of params; an error it throws ends the call
StressScenario ==
  /\ stressPc = "loop"
  /\ stressDone < Len(scenarios)
  /\ \E scenario \in {scenarios[stressDone + 1]} :
       \E out \in {runMonteCarloSimulation(
                     initialPrice, params,
                     StressedVolatility(initialVolatility, scenario),
                     StressedDrift(drift, scenario), stream, rngPos)} :
         /\ rngPos' = out.pos
         /\ IF out.thrown # ""
            THEN /\ stressPc' = "thrown"
                 /\ stressThrown' = out.thrown
                 /\ UNCHANGED <<results, stressDone>>
            ELSE /\ results' = Append(results, StressResult(scenario, out.result, initialPrice))
                 /\ stressDone' = stressDone + 1
                 /\ UNCHANGED <<stressPc, stressThrown>>
  /\ UNCHANGED <<mcArgs, stream, scenarios>>
  /\ UNCHANGED otherThanStress

\* line 269
StressReturn ==
  /\ stressPc = "loop"
  /\ stressDone >= Len(scenarios)
  /\ stressPc' = "returned"
  /\ UNCHANGED <<mcArgs, stream, rngPos, scenarios, stressDone, results, stressThrown>>
  /\ UNCHANGED otherThanStress

(***************************************************************************)
(* calculatePerformanceMetrics                                             *)
(***************************************************************************)
\* the benchmark returns a caller may pass: none, or at most MaxBenchmark
MaxBenchmark == 2

BenchmarkValues == {Num(1, -2), Num(-2, -2)}

BenchmarkChoices ==
  {[given |-> FALSE, values |-> <<>>]} \cup
  {[given |-> TRUE, values |-> b] :
     b \in UNION {[1..n -> BenchmarkValues] : n \in 0..MaxBenchmark}}

RISK_FREE_RATE == Num(2, -2)

Sqrt252 == Sqrt(FromInt(252))

\* calculateReturns as one value: the error thrown ("" when none) and the
\* series returned
calculateReturns(ps) ==
  IF Len(ps) < 2
  THEN [thrown |-> "Need at least 2 price points to calculate returns",
        returns |-> <<>>]
  ELSE IF \E i \in 1..(Len(ps) - 1) : Le(ps[i], Zero)
  THEN [thrown |-> "Invalid price data: non-positive close price", returns |-> <<>>]
  ELSE [thrown |-> "",
        returns |-> [i \in 1..(Len(ps) - 1) |-> LogReturn(ps[i], ps[i + 1])]]

\* lines 434-449
calculateMaxDrawdownFromPrices(ps) == PathDrawdown(ps, 1, ps[1], Zero)

\* a benchmark test that accepts a benchmark longer than the returns
BenchmarkLongEnough(rs, bench) == bench.given /\ Len(bench.values) >= Len(rs)

\* line 301: benchmarkReturns && benchmarkReturns.length === returns.length
BenchmarkUsed(rs, bench) == bench.given /\ Len(bench.values) = Len(rs)

\* lines 306-310
Covariance(rs, bs) ==
  LET meanReturn == MeanReturn(rs)
      benchmarkMean == MeanReturn(bs)
      prod == [i \in 1..Len(rs) |->
                 Mul(Sub(rs[i], meanReturn), Sub(bs[i], benchmarkMean))]
  IN Div(SumFirst(prod, Len(rs)), FromInt(Len(rs) - 1))

\* line 316
TrackingError(rs, bs) ==
  LET sq == [i \in 1..Len(rs) |-> Sq(Sub(rs[i], bs[i]))]
  IN Sqrt(Div(SumFirst(sq, Len(rs)), FromInt(Len(rs))))

\* lines 285-286
DownsideDeviation(rs) ==
  LET meanReturn == MeanReturn(rs)
      downsideReturns == SelectSeq(rs, LAMBDA r : Lt(r, meanReturn))
      sq == [i \in 1..Len(downsideReturns) |-> Sq(Sub(downsideReturns[i], meanReturn))]
  IN Sqrt(Div(SumFirst(sq, Len(downsideReturns)), FromInt(Len(downsideReturns))))

\* lines 274-332: the metrics returned for the closes ps, their returns rs and
\* the benchmark
PerformanceMetrics(ps, rs, bench) ==
  LET annualizedReturn == Mul(MeanReturn(rs), FromInt(252))
      annualizedVolatility == Mul(Sqrt(SampleVar(rs)), Sqrt252)
      excess == Sub(annualizedReturn, RISK_FREE_RATE)
      maxDrawdown == calculateMaxDrawdownFromPrices(ps)
      used == BenchmarkUsed(rs, bench)
      benchmarkAnnual == Mul(MeanReturn(bench.values), FromInt(252))
      beta == IF used THEN Div(Covariance(rs, bench.values), SampleVar(bench.values))
              ELSE One
  IN [sharpeRatio |-> Div(excess, annualizedVolatility),
      sortinoRatio |-> Div(excess, Mul(DownsideDeviation(rs), Sqrt252)),
      maxDrawdown |-> maxDrawdown,
      calmarRatio |-> Div(annualizedReturn, AbsF(maxDrawdown)),
      informationRatio |->
        IF used
        THEN Div(Sub(annualizedReturn, benchmarkAnnual),
                 Mul(TrackingError(rs, bench.values), Sqrt252))
        ELSE Zero,
      beta |-> beta,
      alpha |->
        IF used
        THEN Sub(annualizedReturn,
                 Add(RISK_FREE_RATE, Mul(beta, Sub(benchmarkAnnual, RISK_FREE_RATE))))
        ELSE Zero,
      treynorRatio |-> IF used THEN Div(excess, beta) ELSE Zero]

NoMetrics == [none |-> TRUE]

PerfIdle ==
  /\ benchmarkReturns = [given |-> FALSE, values |-> <<>>]
  /\ metrics = NoMetrics
  /\ perfPc = "idle"
  /\ perfThrown = ""

PerfInit ==
  /\ prices \in PriceSeries
  /\ returns = <<>>
  /\ retIndex = 0
  /\ retPc = "idle"
  /\ retThrown = ""
  /\ benchmarkReturns \in BenchmarkChoices
  /\ metrics = NoMetrics
  /\ perfPc = "call"
  /\ perfThrown = ""

\* line 273: calculateReturns throws
PerfThrow ==
  /\ perfPc = "call"
  /\ calculateReturns(prices).thrown # ""
  /\ perfPc' = "thrown"
  /\ perfThrown' = calculateReturns(prices).thrown
  /\ UNCHANGED <<prices, benchmarkReturns, metrics>>
  /\ UNCHANGED otherThanPerf

\* lines 273-332
PerfReturn ==
  /\ perfPc = "call"
  /\ calculateReturns(prices).thrown = ""
  /\ \E rs \in {calculateReturns(prices).returns} :
       metrics' = PerformanceMetrics(prices, rs, benchmarkReturns)
  /\ perfPc' = "returned"
  /\ UNCHANGED <<prices, benchmarkReturns, perfThrown>>
  /\ UNCHANGED otherThanPerf

(***************************************************************************)
(* generateMarkovRegime (part_002 lines 145-170)                           *)
(***************************************************************************)
MaxRegimes == 3

\* the returns handed to the regime functions: a loss, a flat day and a gain
RegimeReturnValues == {Num(-2, -2), Zero, Num(1, -2)}

RegimeReturnSeries == UNION {[1..n -> RegimeReturnValues] : n \in 0..MaxRegimes}

MarkovSwitchProbs == {Num(-1, -1), Zero, Num(5, -1), One, Num(11, -1)}

\* a starting regime taken from the first return instead of the last
InitialRegimeOfFirst(rs) == IF Ge(rs[1], Zero) THEN 1 ELSE -1

\* line 158: returns[returns.length - 1] >= 0 ? 1 : -1
InitialRegime(rs) == IF Ge(rs[Len(rs)], Zero) THEN 1 ELSE -1

\* a switch test that also switches on a draw equal to switchProb
SwitchesAtOrBelow(k, p) == Le(Uniform(k), p)

\* line 150: switchProb < 0 || switchProb > 1
SwitchProbInvalid(p) == Lt(p, Zero) \/ Gt(p, One)

\* line 164: Math.random() < switchProb, for the draw k/8
Switches(k, p) == Lt(Uniform(k), p)

MarkovIdle ==
  /\ markovReturns = <<>>
  /\ switchProb = Zero
  /\ regimes = <<>>
  /\ currentRegime = 0
  /\ markovT = 0
  /\ markovPc = "idle"
  /\ markovThrown = ""

\* a call of generateMarkovRegime; the draws Math.random() will return are fixed
MarkovInit ==
  /\ initialPrice = Zero
  /\ params = [alpha |-> Zero, beta |-> Zero, theta |-> Zero, switchProb |-> Zero,
               numPaths |-> 0, numSteps |-> 0]
  /\ initialVolatility = Zero
  /\ drift = Zero
  /\ stream \in Streams
  /\ rngPos = 0
  /\ pc = "idle"
  /\ path = 0
  /\ paths = <<>>
  /\ finalPrices = <<>>
  /\ sortedPrices = <<>>
  /\ result = NoResult
  /\ thrown = ""
  /\ markovReturns \in RegimeReturnSeries
  /\ switchProb \in MarkovSwitchProbs
  /\ regimes = <<>>
  /\ currentRegime = 0
  /\ markovT = 0
  /\ markovPc = "call"
  /\ markovThrown = ""

\* lines 146-148
MarkovNoData ==
  /\ markovPc = "call"
  /\ Len(markovReturns) = 0
  /\ markovPc' = "thrown"
  /\ markovThrown' = "No returns data provided"
  /\ UNCHANGED <<markovReturns, switchProb, regimes, currentRegime, markovT,
                 stream, rngPos>>
  /\ UNCHANGED otherThanMarkov

\* lines 150-152
MarkovBadSwitchProb ==
  /\ markovPc = "call"
  /\ Len(markovReturns) # 0
  /\ SwitchProbInvalid(switchProb)
  /\ markovPc' = "thrown"
  /\ markovThrown' = "Switch probability must be between 0 and 1"
  /\ UNCHANGED <<markovReturns, switchProb, regimes, currentRegime, markovT,
                 stream, rngPos>>
  /\ UNCHANGED otherThanMarkov

\* lines 154-158: regimes = [], currentRegime from the last return, t = 0
MarkovEnter ==
  /\ markovPc = "call"
  /\ Len(markovReturns) # 0
  /\ ~SwitchProbInvalid(switchProb)
  /\ regimes' = <<>>
  /\ currentRegime' = InitialRegime(markovReturns)
  /\ markovT' = 0
  /\ markovPc' = "loop"
  /\ UNCHANGED <<markovReturns, switchProb, markovThrown, stream, rngPos>>
  /\ UNCHANGED otherThanMarkov

\* lines 160-167: one turn of the loop: the label is stored, then one draw
\* decides whether the regime switches
MarkovStep ==
  /\ markovPc = "loop"
  /\ markovT < Len(markovReturns)
  /\ regimes' = Append(regimes, currentRegime)
  /\ currentRegime' = IF Switches(DrawAt(stream, rngPos), switchProb)
                      THEN -currentRegime
                      ELSE currentRegime
  /\ rngPos' = rngPos + 1
  /\ markovT' = markovT + 1
  /\ UNCHANGED <<markovReturns, switchProb, markovPc, markovThrown, stream>>
  /\ UNCHANGED otherThanMarkov

\* line 169
MarkovReturn ==
  /\ markovPc = "loop"
  /\ markovT >= Len(markovReturns)
  /\ markovPc' = "returned"
  /\ UNCHANGED <<markovReturns, switchProb, regimes, currentRegime, markovT,
                 markovThrown, stream, rngPos>>
  /\ UNCHANGED otherThanMarkov

(***************************************************************************)
(* analyzeRegime (part_002 lines 335-405)                                  *)
(***************************************************************************)
\* RegimeLabel[]: sequences of +1 and -1
RegimeLabels == {1, -1}

RegimeSeries == UNION {[1..n -> RegimeLabels] : n \in 0..MaxRegimes}

\* a count of the bear labels that skips the first element
BearCountAfterFirst(rg) == Cardinality({i \in 2..Len(rg) : rg[i] < 0})

\* line 341: regimes.filter(r => r > 0).length
BullCount(rg) == Cardinality({i \in 1..Len(rg) : rg[i] > 0})

\* line 342: regimes.filter(r => r < 0).length
BearCount(rg) == Cardinality({i \in 1..Len(rg) : rg[i] < 0})

\* lines 345-346: count / totalCount, kept as the exact quotient of the two
\* integers. In binary64 k/n + (n-k)/n is exactly 1 for every 0 <= k <= n <= 5000
\* (computed exhaustively), which a short decimal mantissa does not reproduce
\* (1/3 + 2/3), so the quotient is not rounded here; den = 0 is 0/0, NaN.
Quotient(count, totalCount) == [num |-> count, den |-> totalCount]

\* the sum of two quotients of the same denominator is exactly 1
QuotientsSumToOne(a, b) == a.den = b.den /\ a.den > 0 /\ a.num + b.num = a.den

\* lines 354-373: the loop over regimes[1..] and the final push; i is the
\* 1-based index of the element looked at next
RECURSIVE DurationsFrom(_, _, _, _, _, _)
DurationsFrom(rg, i, current, duration, bull, bear) ==
  IF i > Len(rg)
  THEN IF current > 0
       THEN [bull |-> Append(bull, duration), bear |-> bear]
       ELSE [bull |-> bull, bear |-> Append(bear, duration)]
  ELSE IF rg[i] = current
       THEN DurationsFrom(rg, i + 1, current, duration + 1, bull, bear)
       ELSE IF current > 0
            THEN DurationsFrom(rg, i + 1, rg[i], 1, Append(bull, duration), bear)
            ELSE DurationsFrom(rg, i + 1, rg[i], 1, bull, Append(bear, duration))

\* lines 349-373: bullDurations and bearDurations; regimes[0] of an empty array
\* is undefined, which is not > 0 (0 stands for it)
RegimeDurations(rg) ==
  DurationsFrom(rg, 2, IF Len(rg) > 0 THEN rg[1] ELSE 0, 1, <<>>, <<>>)

\* lines 377-378: the mean of the durations, 0 when there are none
MeanDuration(ds) ==
  IF Len(ds) > 0
  THEN Div(SumFirst([i \in 1..Len(ds) |-> FromInt(ds[i])], Len(ds)), FromInt(Len(ds)))
  ELSE Zero

\* lines 382-383: returns.filter((_, i) => regimes[i] has the sign sgn)
ReturnsOfRegime(rs, rg, sgn) ==
  LET idx == {i \in 1..Len(rg) : rg[i] * sgn > 0}
  IN [j \in 1..Cardinality(idx) |->
        rs[CHOOSE i \in idx : Cardinality({h \in idx : h < i}) = j - 1]]

\* lines 386-387 and 390-391: the mean of the returns, 0 when there are none
RegimeMean(xs) ==
  IF Len(xs) > 0 THEN Div(SumFirst(xs, Len(xs)), FromInt(Len(xs))) ELSE Zero

\* lines 394-395: the sample deviation (divisor length - 1), 0 when there are
\* no returns
RegimeDeviation(xs) ==
  IF Len(xs) > 0
  THEN Sqrt(Div(SumFirst([i \in 1..Len(xs) |-> Sq(Sub(xs[i], RegimeMean(xs)))], Len(xs)),
                FromInt(Len(xs) - 1)))
  ELSE Zero

\* lines 341-404: the record returned
RegimeAnalysis(rs, rg) ==
  LET durations == RegimeDurations(rg)
      bullReturns == ReturnsOfRegime(rs, rg, 1)
      bearReturns == ReturnsOfRegime(rs, rg, -1)
  IN [bullMarketProbability |-> Quotient(BullCount(rg), Len(rg)),
      bearMarketProbability |-> Quotient(BearCount(rg), Len(rg)),
      regimeDuration |-> [bull |-> MeanDuration(durations.bull),
                          bear |-> MeanDuration(durations.bear)],
      regimeVolatility |-> [bull |-> RegimeDeviation(bullReturns),
                            bear |-> RegimeDeviation(bearReturns)],
      regimeReturns |-> [bull |-> RegimeMean(bullReturns),
                         bear |-> RegimeMean(bearReturns)]]

NoAnalysis == [none |-> TRUE]

AnalyzeIdle ==
  /\ analyzeReturns = <<>>
  /\ analyzeRegimes = <<>>
  /\ analysis = NoAnalysis
  /\ analyzePc = "idle"
  /\ analyzeThrown = ""

AnalyzeInit ==
  /\ analyzeReturns \in RegimeReturnSeries
  /\ analyzeRegimes \in RegimeSeries
  /\ analysis = NoAnalysis
  /\ analyzePc = "call"
  /\ analyzeThrown = ""

\* lines 336-338
AnalyzeThrow ==
  /\ analyzePc = "call"
  /\ Len(analyzeReturns) # Len(analyzeRegimes)
  /\ analyzePc' = "thrown"
  /\ analyzeThrown' = "Returns and regimes arrays must have the same length"
  /\ UNCHANGED <<analyzeReturns, analyzeRegimes, analysis>>
  /\ UNCHANGED otherThanAnalyze

\* lines 340-404
AnalyzeReturn ==
  /\ analyzePc = "call"
  /\ Len(analyzeReturns) = Len(analyzeRegimes)
  /\ analysis' = RegimeAnalysis(analyzeReturns, analyzeRegimes)
  /\ analyzePc' = "returned"
  /\ UNCHANGED <<analyzeReturns, analyzeRegimes, analyzeThrown>>
  /\ UNCHANGED otherThanAnalyze

(***************************************************************************)
(* TechnicalAnalysis.generateRecommendations                               *)
(* (src/src/TechnicalAnalysis.ts lines 182-381)                            *)
(***************************************************************************)
\* the closes of the argument prices: one price, flat, calm and wild series
RecommendationPrices ==
  {<<FromInt(100)>>,
   <<FromInt(100), FromInt(100), FromInt(100)>>,
   <<FromInt(100), FromInt(101), FromInt(100)>>,
   <<FromInt(100), FromInt(110), FromInt(100)>>}

\* the argument indicators: the array rsi, and the last element of each of the
\* other arrays read at lines 200-208
IndicatorChoices ==
  [rsi : {<<>>, <<FromInt(20)>>, <<FromInt(50)>>, <<FromInt(80)>>, <<NaN>>},
   macd : {FromInt(-1), One},
   signal : {Zero},
   histogram : {FromInt(-1), One},
   upper : {FromInt(110)},
   lower : {FromInt(90)},
   sma20 : {FromInt(85), FromInt(100), FromInt(115)},
   sma50 : {FromInt(100)}]

\* the argument fundamentals; 0 stands for a missing (falsy) figure
FundamentalChoices ==
  [pe : {Zero, FromInt(10), FromInt(30)},
   pb : {Num(5, -1), FromInt(5)},
   peg : {Num(5, -1), FromInt(2)}]

CurrentPrices == {Zero, FromInt(80), FromInt(100), FromInt(120)}

\* the truth value of a number in a condition: 0 and NaN are falsy
Truthy(x) == ~IsNaN(x) /\ x # Zero

\* Math.round of a finite number of magnitude below 10^9, as an integer
MathRound(x) == FloorInt(Add(x, Half))

NoSignal == [list |-> "none", delta |-> 0, text |-> ""]

\* lines 210-219; the else branch formats currentRSI too
RsiSignal(currentRSI) ==
  IF Lt(currentRSI, FromInt(30))
  THEN [list |-> "bullish", delta |-> 2, text |-> "RSI indicates oversold conditions"]
  ELSE IF Gt(currentRSI, FromInt(70))
  THEN [list |-> "bearish", delta |-> -2, text |-> "RSI indicates overbought conditions"]
  ELSE [list |-> "neutral", delta |-> 0, text |-> "RSI is in neutral territory"]

\* lines 221-228
MacdSignal(ind) ==
  IF Gt(ind.macd, ind.signal) /\ Gt(ind.histogram, Zero)
  THEN [list |-> "bullish", delta |-> 1,
        text |-> "MACD is above signal line and histogram is positive"]
  ELSE IF Lt(ind.macd, ind.signal) /\ Lt(ind.histogram, Zero)
  THEN [list |-> "bearish", delta |-> -1,
        text |-> "MACD is below signal line and histogram is negative"]
  ELSE NoSignal

\* lines 230-237
BollingerSignal(ind, price) ==
  IF Lt(price, ind.lower)
  THEN [list |-> "bullish", delta |-> 1,
        text |-> "Price is below lower Bollinger Band (potential bounce)"]
  ELSE IF Gt(price, ind.upper)
  THEN [list |-> "bearish", delta |-> -1,
        text |-> "Price is above upper Bollinger Band (potential reversal)"]
  ELSE NoSignal

\* lines 239-246
MovingAverageSignal(ind, price) ==
  IF Gt(price, ind.sma20) /\ Gt(ind.sma20, ind.sma50)
  THEN [list |-> "bullish", delta |-> 1,
        text |-> "Price above 20-day SMA and 20-day SMA above 50-day SMA"]
  ELSE IF Lt(price, ind.sma20) /\ Lt(ind.sma20, ind.sma50)
  THEN [list |-> "bearish", delta |-> -1,
        text |-> "Price below 20-day SMA and 20-day SMA below 50-day SMA"]
  ELSE NoSignal

\* lines 249-271: one fundamental figure against its low and high marks
FundamentalSignal(figure, low, high, lowText, highText) ==
  IF Truthy(figure) /\ Lt(figure, low)
  THEN [list |-> "bullish", delta |-> 1, text |-> lowText]
  ELSE IF Truthy(figure) /\ Gt(figure, high)
  THEN [list |-> "bearish", delta |-> -1, text |-> highText]
  ELSE NoSignal

\* lines 304-313
calculateVolatility(ps) ==
  LET n == IF Len(ps) > 0 THEN Len(ps) - 1 ELSE 0
      rets == [i \in 1..n |-> Ln(Div(ps[i + 1], ps[i]))]
      mean == Div(SumFirst(rets, n), FromInt(n))
      variance == Div(SumFirst([i \in 1..n |-> Sq(Sub(rets[i], mean))], n), FromInt(n))
  IN Sqrt(Mul(variance, FromInt(252)))

\* lines 274-281
RiskSignal(volatility) ==
  IF Lt(volatility, Num(15, -2))
  THEN [list |-> "neutral", delta |-> 1,
        text |-> "Low volatility indicates stable price movement"]
  ELSE IF Gt(volatility, Num(3, -1))
  THEN [list |-> "bearish", delta |-> -1,
        text |-> "High volatility indicates increased risk"]
  ELSE NoSignal

\* lines 210-246: the four technical checks in order
TechnicalSteps(ind, price) ==
  <<RsiSignal(ind.rsi[Len(ind.rsi)]), MacdSignal(ind), BollingerSignal(ind, price),
    MovingAverageSignal(ind, price)>>

\* lines 248-271: the three fundamental checks in order
FundamentalSteps(fund) ==
  <<FundamentalSignal(fund.pe, FromInt(15), FromInt(25),
                      "P/E ratio is low", "P/E ratio is high"),
    FundamentalSignal(fund.pb, One, FromInt(3),
                      "P/B ratio is below 1", "P/B ratio is high"),
    FundamentalSignal(fund.peg, One, Num(15, -1),
                      "PEG ratio indicates undervaluation",
                      "PEG ratio indicates overvaluation")>>

\* the sum of the score changes of the steps
RECURSIVE SumDeltas(_)
SumDeltas(steps) ==
  IF steps = <<>> THEN 0 ELSE steps[1].delta + SumDeltas(Tail(steps))

\* the messages pushed on one of the lists of signals, in order
RECURSIVE Pushed(_, _)
Pushed(steps, list) ==
  IF steps = <<>> THEN <<>>
  ELSE (IF steps[1].list = list THEN <<steps[1].text>> ELSE <<>>)
         \o Pushed(Tail(steps), list)

\* lines 188-192 with every push of lines 210-281
Signals(steps) ==
  [bullish |-> Pushed(steps, "bullish"),
   bearish |-> Pushed(steps, "bearish"),
   neutral |-> Pushed(steps, "neutral")]

\* an overall score that is the sum of the three scores
ScoreSum(technicalScore, fundamentalScore, riskScore) ==
  FromInt(technicalScore + fundamentalScore + riskScore)

\* line 289
OverallScore(technicalScore, fundamentalScore, riskScore) ==
  Div(FromInt(technicalScore + fundamentalScore + riskScore), FromInt(3))

\* lines 326-335: action
Action(score) ==
  IF Ge(score, Num(15, -1)) THEN "BUY"
  ELSE IF Le(score, Num(-15, -1)) THEN "SELL"
  ELSE "HOLD"

\* lines 326-335: confidence before rounding
Confidence(score) ==
  IF Ge(score, Num(15, -1))
  THEN MathMin(FromInt(90), Add(FromInt(70), Mul(score, FromInt(10))))
  ELSE IF Le(score, Num(-15, -1))
  THEN MathMin(FromInt(90), Add(FromInt(70), Mul(AbsF(score), FromInt(10))))
  ELSE Add(FromInt(50), Mul(AbsF(score), FromInt(20)))

\* lines 338-347
RiskLevel(signals) ==
  IF Len(signals.bearish) > Len(signals.bullish) + 2 THEN "HIGH"
  ELSE IF Len(signals.bullish) > Len(signals.bearish) + 2 THEN "LOW"
  ELSE "MEDIUM"

\* lines 350-356
TimeHorizon(type) ==
  IF type = "TECHNICAL" THEN "SHORT"
  ELSE IF type = "FUNDAMENTAL" THEN "LONG"
  ELSE "MEDIUM"

\* lines 315-381; price is 0 where the optional currentPrice is not passed
createRecommendation(score, type, signals, price) ==
  LET all == signals.bullish \o signals.bearish \o signals.neutral
      target(rate) == IF Truthy(price)
                      THEN Mul(price, Add(One, Mul(score, rate)))
                      ELSE Zero
  IN [action |-> Action(score),
      confidence |-> MathRound(Confidence(score)),
      reasoning |-> IF type = "OVERALL"
                    THEN SubSeq(all, 1, IF Len(all) < 5 THEN Len(all) ELSE 5)
                    ELSE <<>>,
      riskLevel |-> RiskLevel(signals),
      timeHorizon |-> TimeHorizon(type),
      priceTargets |-> [conservative |-> target(Num(5, -2)),
                        moderate |-> target(Num(1, -1)),
                        aggressive |-> target(Num(2, -1))],
      stopLoss |-> IF Truthy(price) THEN Mul(price, Num(95, -2)) ELSE Zero,
      takeProfit |-> IF Truthy(price) THEN Mul(price, Num(115, -2)) ELSE Zero]

\* lines 383-395: the values the summary sentence is built from
generateSummary(signals, overall) ==
  IF overall.action = "BUY"
  THEN <<"Strong buy recommendation", overall.confidence, Len(signals.bullish),
         Len(signals.bearish), overall.riskLevel, overall.timeHorizon>>
  ELSE IF overall.action = "SELL"
  THEN <<"Sell recommendation", overall.confidence, Len(signals.bearish),
         Len(signals.bullish), overall.riskLevel>>
  ELSE <<"Hold recommendation", overall.confidence, Len(signals.bullish),
         Len(signals.bearish), Len(signals.neutral)>>

\* lines 188-301: the analysis returned, given the volatility of the prices
\* computed at line 274
RecommendationAnalysis(volatility, ind, fund, price) ==
  LET technicalSteps == TechnicalSteps(ind, price)
      fundamentalSteps == FundamentalSteps(fund)
      riskSteps == <<RiskSignal(volatility)>>
      signals == Signals(technicalSteps \o fundamentalSteps \o riskSteps)
      technicalScore == SumDeltas(technicalSteps)
      fundamentalScore == SumDeltas(fundamentalSteps)
      riskScore == SumDeltas(riskSteps)
      overall == createRecommendation(
                   OverallScore(technicalScore, fundamentalScore, riskScore),
                   "OVERALL", signals, price)
  IN [overall |-> overall,
      technical |-> createRecommendation(FromInt(technicalScore), "TECHNICAL",
                                         signals, Zero),
      fundamental |-> createRecommendation(FromInt(fundamentalScore), "FUNDAMENTAL",
                                           signals, Zero),
      risk |-> createRecommendation(FromInt(riskScore), "RISK", signals, Zero),
      signals |-> signals,
      summary |-> generateSummary(signals, overall)]

NoRecommendations == [none |-> TRUE]

RecIdle ==
  /\ indicators = [none |-> TRUE]
  /\ fundamentals = [none |-> TRUE]
  /\ currentPrice = Zero
  /\ recommendations = NoRecommendations
  /\ recPc = "idle"
  /\ recThrown = ""

RecInit ==
  /\ prices \in RecommendationPrices
  /\ returns = <<>>
  /\ retIndex = 0
  /\ retPc = "idle"
  /\ retThrown = ""
  /\ indicators \in IndicatorChoices
  /\ fundamentals \in FundamentalChoices
  /\ currentPrice \in CurrentPrices
  /\ recommendations = NoRecommendations
  /\ recPc = "call"
  /\ recThrown = ""

\* lines 199 and 218: with an empty rsi array currentRSI is undefined, both
\* comparisons are false and currentRSI.toFixed(1) throws
RecThrow ==
  /\ recPc = "call"
  /\ Len(indicators.rsi) = 0
  /\ recPc' = "thrown"
  /\ recThrown' = "TypeError"
  /\ UNCHANGED <<prices, indicators, fundamentals, currentPrice, recommendations>>
  /\ UNCHANGED otherThanRec

\* lines 188-301
RecReturn ==
  /\ recPc = "call"
  /\ Len(indicators.rsi) > 0
  /\ \E volatility \in {calculateVolatility(prices)} :
       recommendations' =
         RecommendationAnalysis(volatility, indicators, fundamentals, currentPrice)
  /\ recPc' = "returned"
  /\ UNCHANGED <<prices, indicators, fundamentals, currentPrice, recThrown>>
  /\ UNCHANGED otherThanRec

(***************************************************************************)
(* calculateTrendAndDrift (part_002 lines 101-143)                         *)
(***************************************************************************)
\* line 102: prices.length < 2
TooFewPricesForTrend(ps) == Len(ps) < 2

\* line 106: theta < 0 || theta > 1
ThetaInvalid(th) == Lt(th, Zero) \/ Gt(th, One)

\* lines 119-130: the regression sums over x = 0..n-1 and y = log(close)
RegressionSums(ps) ==
  LET n == Len(ps)
      logPrices == [i \in 1..n |-> Ln(ps[i])]
      xMean == Div(FromInt(n - 1), Two)
      yMean == Div(SumFirst(logPrices, n), FromInt(n))
      dx == [i \in 1..n |-> Sub(FromInt(i - 1), xMean)]
  IN [numerator |-> SumFirst([i \in 1..n |-> Mul(dx[i], Sub(logPrices[i], yMean))], n),
      denominator |-> SumFirst([i \in 1..n |-> Sq(dx[i])], n)]

\* lines 133-142: the result for the regression sums: the fallback when the
\* denominator is below 1e-10, the projected trend and the drift otherwise
TrendAndDrift(ps, th, sums) ==
  IF Lt(AbsF(sums.denominator), Num(1, -10))
  THEN [trend |-> ps[Len(ps)], drift |-> Zero]
  ELSE LET slope == Div(sums.numerator, sums.denominator)
           trend == Exp(Mul(slope, FromInt(Len(ps))))
           current == ps[Len(ps)]
       IN [trend |-> trend,
           drift |-> Div(Mul(th, Sub(trend, current)), current)]

NoTrend == [none |-> TRUE]

TrendIdle ==
  /\ trendTheta = Zero
  /\ trendResult = NoTrend
  /\ trendPc = "idle"
  /\ trendThrown = ""

TrendInit ==
  /\ prices \in PriceSeries
  /\ returns = <<>>
  /\ retIndex = 0
  /\ retPc = "idle"
  /\ retThrown = ""
  /\ trendTheta \in Thetas
  /\ trendResult = NoTrend
  /\ trendPc = "call"
  /\ trendThrown = ""

\* lines 102-104
TrendTooShort ==
  /\ trendPc = "call"
  /\ TooFewPricesForTrend(prices)
  /\ trendPc' = "thrown"
  /\ trendThrown' = "Need at least 2 price points to calculate trend"
  /\ UNCHANGED <<prices, trendTheta, trendResult>>
  /\ UNCHANGED otherThanTrend

\* lines 106-108
TrendBadTheta ==
  /\ trendPc = "call"
  /\ ~TooFewPricesForTrend(prices)
  /\ ThetaInvalid(trendTheta)
  /\ trendPc' = "thrown"
  /\ trendThrown' = "Theta must be between 0 and 1"
  /\ UNCHANGED <<prices, trendTheta, trendResult>>
  /\ UNCHANGED otherThanTrend

\* lines 111-116: the map over the prices throws at a close that is <= 0
TrendBadClose ==
  /\ trendPc = "call"
  /\ ~TooFewPricesForTrend(prices)
  /\ ~ThetaInvalid(trendTheta)
  /\ \E i \in 1..Len(prices) : Le(prices[i], Zero)
  /\ trendPc' = "thrown"
  /\ trendThrown' = "Invalid price data: non-positive close price"
  /\ UNCHANGED <<prices, trendTheta, trendResult>>
  /\ UNCHANGED otherThanTrend

\* lines 110-142
TrendReturn ==
  /\ trendPc = "call"
  /\ ~TooFewPricesForTrend(prices)
  /\ ~ThetaInvalid(trendTheta)
  /\ \A i \in 1..Len(prices) : ~Le(prices[i], Zero)
  /\ \E sums \in {RegressionSums(prices)} :
       trendResult' = TrendAndDrift(prices, trendTheta, sums)
  /\ trendPc' = "returned"
  /\ UNCHANGED <<prices, trendTheta, trendThrown>>
  /\ UNCHANGED otherThanTrend

(***************************************************************************)
(* The simulation worker of the dashboard (App.tsx lines 120-282) and the  *)
(* Analytics functions it copies, each as one value                        *)
(***************************************************************************)
\* volatilities[0..t-1] of the GARCH recursion, from volatilities[0] = first
RECURSIVE GarchSeries(_, _, _, _, _, _)
GarchSeries(first, rs, omega, alpha, beta, t) ==
  IF t <= 1 THEN <<first>>
  ELSE LET prev == GarchSeries(first, rs, omega, alpha, beta, t - 1)
       IN Append(prev, GarchVolatility(omega, alpha, beta, rs[t - 1], prev[t - 1]))

\* Analytics.calculateGARCHVolatility (part_002 lines 59-99): the error thrown
\* ("" when none) and the series returned
calculateGARCHVolatility(rs, alpha, beta) ==
  IF Len(rs) = 0
  THEN [thrown |-> "No returns data provided", volatilities |-> <<>>]
  ELSE IF GarchParamsInvalid(alpha, beta)
  THEN [thrown |-> "Invalid GARCH parameters: alpha + beta must be < 1",
        volatilities |-> <<>>]
  ELSE IF Len(rs) = 1
  THEN [thrown |-> "", volatilities |-> <<SingleVolatility(rs[1])>>]
  ELSE [thrown |-> "",
        volatilities |->
          GarchSeries(Sqrt(AdjustedSampleVar(rs)), rs, GarchOmega(rs, alpha, beta),
                      alpha, beta, Len(rs))]

\* Analytics.calculateTrendAndDrift (part_002 lines 101-143): the error thrown
\* ("" when none) and the record returned
calculateTrendAndDrift(ps, th) ==
  IF TooFewPricesForTrend(ps)
  THEN [thrown |-> "Need at least 2 price points to calculate trend",
        value |-> NoTrend]
  ELSE IF ThetaInvalid(th)
  THEN [thrown |-> "Theta must be between 0 and 1", value |-> NoTrend]
  ELSE IF \E i \in 1..Len(ps) : Le(ps[i], Zero)
  THEN [thrown |-> "Invalid price data: non-positive close price", value |-> NoTrend]
  ELSE [thrown |-> "",
        value |-> CHOOSE out \in {TrendAndDrift(ps, th, sums) :
                                    sums \in {RegressionSums(ps)}} : TRUE]

\* the worker's calculateReturns (App.tsx lines 128-136)
workerCalculateReturns(ps) ==
  IF Len(ps) < 2
  THEN [thrown |-> "Need at least 2 price points", returns |-> <<>>]
  ELSE IF \E i \in 1..(Len(ps) - 1) : Le(ps[i], Zero)
  THEN [thrown |-> "Invalid price data", returns |-> <<>>]
  ELSE [thrown |-> "",
        returns |-> [i \in 1..(Len(ps) - 1) |-> LogReturn(ps[i], ps[i + 1])]]

\* the worker's calculateGARCHVolatility (App.tsx lines 138-154): the sample
\* variance is taken for every n, a single return included
workerCalculateGARCHVolatility(rs, alpha, beta) ==
  IF Len(rs) = 0
  THEN [thrown |-> "No returns data", volatilities |-> <<>>]
  ELSE IF GarchParamsInvalid(alpha, beta)
  THEN [thrown |-> "Invalid GARCH parameters", volatilities |-> <<>>]
  ELSE [thrown |-> "",
        volatilities |->
          GarchSeries(Sqrt(AdjustedSampleVar(rs)), rs, GarchOmega(rs, alpha, beta),
                      alpha, beta, Len(rs))]

\* the worker's calculateTrendAndDrift (App.tsx lines 156-181): the logarithm
\* is taken of every close, whatever its sign
workerCalculateTrendAndDrift(ps, th) ==
  IF TooFewPricesForTrend(ps)
  THEN [thrown |-> "Need at least 2 price points", value |-> NoTrend]
  ELSE IF ThetaInvalid(th)
  THEN [thrown |-> "Theta must be between 0 and 1", value |-> NoTrend]
  ELSE [thrown |-> "",
        value |-> CHOOSE out \in {TrendAndDrift(ps, th, sums) :
                                    sums \in {RegressionSums(ps)}} : TRUE]

\* the worker's runMonteCarloSimulation (App.tsx lines 183-258): the two checks
\* of lines 184-185, the loops of lines 192-210 and the statistics of lines
\* 213-257, which are those of Analytics.calculateStatistics
workerRunMonteCarloSimulation(price, p, vol, drf, s, pos) ==
  IF Le(price, Zero)
  THEN [thrown |-> "Initial price must be positive", result |-> NoResult, pos |-> pos]
  ELSE IF Le(vol, Zero)
  THEN [thrown |-> "Initial volatility must be positive", result |-> NoResult,
        pos |-> pos]
  ELSE CHOOSE out \in
         {[thrown |-> st.thrown, result |-> st.result,
           pos |-> pos + 2 * p.numSteps * p.numPaths] :
            st \in {calculateStatistics(ps, price) :
                      ps \in {SimulationPaths(price, p, vol, drf, s, pos)}}} : TRUE

\* the messages the dashboard may post: the closes of stockData.prices,
\* stockData.currentPrice and the simulation parameters
WorkerPrices ==
  {<<FromInt(100)>>, <<FromInt(100), FromInt(110)>>,
   <<FromInt(100), FromInt(110), FromInt(100)>>,
   <<FromInt(100), Zero, FromInt(110)>>,
   <<FromInt(100), FromInt(110), Zero>>,
   <<FromInt(100), FromInt(110), Num(-5, 0)>>}

WorkerParams ==
  [alpha : {Num(1, -1), Num(11, -1)}, beta : {Num(8, -1)},
   theta : {Num(5, -2), Num(11, -1)}, switchProb : {Num(5, -2)},
   numPaths : {MinPaths - 1, MinPaths}, numSteps : {MinSteps}]

WorkerMessages ==
  [prices : WorkerPrices, currentPrice : {Zero, FromInt(100)}, params : WorkerParams]

NoMessage == [none |-> TRUE]

\* what the try block of self.onmessage (App.tsx lines 261-277) computes from
\* the message and the stream of draws: the error thrown ("" when none), the
\* arguments handed to runMonteCarloSimulation and the result of line 277
workerPipeline(data, s) ==
  CHOOSE out \in
    {IF rets.thrown # ""
     THEN [thrown |-> rets.thrown, simulated |-> FALSE, result |-> NoResult]
     ELSE IF vols.thrown # ""
     THEN [thrown |-> vols.thrown, simulated |-> FALSE, result |-> NoResult]
     ELSE IF td.thrown # ""
     THEN [thrown |-> td.thrown, simulated |-> FALSE, result |-> NoResult]
     ELSE CHOOSE o \in
            {[thrown |-> sim.thrown, simulated |-> TRUE,
              result |->
                IF sim.thrown # "" THEN NoResult
                ELSE [sim.result EXCEPT
                        !.currentVolatility = vols.volatilities[Len(vols.volatilities)],
                        !.trend = td.value.trend,
                        !.drift = td.value.drift]] :
               sim \in {workerRunMonteCarloSimulation(
                          data.currentPrice, data.params,
                          vols.volatilities[Len(vols.volatilities)],
                          td.value.drift, s, 0)}} : TRUE :
       rets \in {workerCalculateReturns(data.prices)},
       vols \in {IF workerCalculateReturns(data.prices).thrown # ""
                 THEN [thrown |-> "", volatilities |-> <<>>]
                 ELSE workerCalculateGARCHVolatility(
                        workerCalculateReturns(data.prices).returns,
                        data.params.alpha, data.params.beta)},
       td \in {workerCalculateTrendAndDrift(data.prices, data.params.theta)}} : TRUE

WorkerIdle ==
  /\ workerData = NoMessage
  /\ workerStream = <<>>
  /\ workerPosted = NoMessage
  /\ workerPc = "idle"

\* a message has arrived; the draws Math.random() will return are fixed
WorkerInit ==
  /\ workerData \in WorkerMessages
  /\ workerStream \in Streams
  /\ workerPosted = NoMessage
  /\ workerPc = "message"

\* App.tsx lines 261-277: the try block runs to its end
WorkerPostResult ==
  /\ workerPc = "message"
  /\ \E out \in {workerPipeline(workerData, workerStream)} :
       /\ out.thrown = ""
       /\ workerPosted' = [success |-> TRUE, result |-> out.result, error |-> ""]
  /\ workerPc' = "posted"
  /\ UNCHANGED <<workerData, workerStream>>
  /\ UNCHANGED <<analyticsVars, dashVars>>

\* App.tsx lines 278-280: an error thrown in the try block is caught
WorkerPostError ==
  /\ workerPc = "message"
  /\ \E out \in {workerPipeline(workerData, workerStream)} :
       /\ out.thrown # ""
       /\ workerPosted' = [success |-> FALSE, result |-> NoResult, error |-> out.thrown]
  /\ workerPc' = "posted"
  /\ UNCHANGED <<workerData, workerStream>>
  /\ UNCHANGED <<analyticsVars, dashVars>>

(***************************************************************************)
(* The dashboard's simulation state (App.tsx lines 13-18, 33-43, 46-77,    *)
(* 109-118 and 284-326)                                                    *)
(***************************************************************************)
\* the number of Worker objects one session creates
MaxSimulations == 3

\* the number of times updateSimulationParam is called
MaxParamUpdates == 2

\* the number of fetchStockData promises pending at once
MaxFetches == 2

\* lines 112-113 and 284-304 of runSimulation, called with the stock data and
\* the parameters of the render whose effect runs it: a new Worker replaces
\* workerRef.current, which is the last element of workers, and is posted its
\* message; the Worker it replaces keeps running with its handlers attached.
\* Blob and Worker construction are taken to succeed (the catch of lines
\* 306-309 is not entered).
runSimulation(data, p) ==
  /\ loading' = TRUE
  /\ error' = ""
  /\ workers' = Append(workers, [stockData |-> data, params |-> p, state |-> "running"])

DashIdle ==
  /\ stockData = 0
  /\ simulationParams = 0
  /\ analyticsResult = 0
  /\ loading = FALSE
  /\ error = ""
  /\ workers = <<>>
  /\ fetches = 0
  /\ apiKey = FALSE
  /\ mounted = FALSE

\* lines 13-43: the state of the component when it is mounted; stockData and
\* analyticsResult are null (0), the parameter object is the first one (0)
DashInit ==
  /\ stockData = 0
  /\ simulationParams = 0
  /\ analyticsResult = 0
  /\ loading = FALSE
  /\ error = ""
  /\ workers = <<>>
  /\ fetches = 0
  /\ apiKey \in BOOLEAN
  /\ mounted = TRUE

\* lines 47-50 of fetchData
FetchNoApiKey ==
  /\ mounted
  /\ ~apiKey
  /\ error' = "Please set up your API key in Settings to fetch stock data"
  /\ UNCHANGED <<stockData, simulationParams, analyticsResult, loading, workers,
                 fetches, apiKey, mounted>>
  /\ UNCHANGED <<analyticsVars, workerVars>>

\* lines 52-57 of fetchData, up to the await
FetchStart ==
  /\ mounted
  /\ apiKey
  /\ fetches < MaxFetches
  /\ Len(workers) + fetches < MaxSimulations
  /\ loading' = TRUE
  /\ error' = ""
  /\ fetches' = fetches + 1
  /\ UNCHANGED <<stockData, simulationParams, analyticsResult, workers, apiKey, mounted>>
  /\ UNCHANGED <<analyticsVars, workerVars>>

\* lines 58 and 75 of fetchData after the await: the new stock data (a new
\* object, numbered from 1) and loading = false are rendered together; then the
\* effect of lines 322-326 runs runSimulation, which sets loading again
FetchResolve ==
  /\ mounted
  /\ fetches > 0
  /\ fetches' = fetches - 1
  /\ stockData' = stockData + 1
  /\ runSimulation(stockData + 1, simulationParams)
  /\ UNCHANGED <<simulationParams, analyticsResult, apiKey, mounted>>
  /\ UNCHANGED <<analyticsVars, workerVars>>

\* lines 64-76 of fetchData: the fetch fails
FetchReject ==
  /\ mounted
  /\ fetches > 0
  /\ fetches' = fetches - 1
  /\ error' = "Failed to fetch data"
  /\ loading' = FALSE
  /\ UNCHANGED <<stockData, simulationParams, analyticsResult, workers, apiKey, mounted>>
  /\ UNCHANGED <<analyticsVars, workerVars>>

\* lines 348-353: a new parameter object; runSimulation (line 310) depends on it,
\* so the effect of lines 322-326 runs again and, with stock data loaded,
\* starts a simulation
UpdateSimulationParam ==
  /\ mounted
  /\ simulationParams < MaxParamUpdates
  /\ Len(workers) + fetches < MaxSimulations
  /\ simulationParams' = simulationParams + 1
  /\ IF stockData # 0
     THEN runSimulation(stockData, simulationParams + 1)
     ELSE UNCHANGED <<loading, error, workers>>
  /\ UNCHANGED <<stockData, analyticsResult, fetches, apiKey, mounted>>
  /\ UNCHANGED <<analyticsVars, workerVars>>

\* lines 287-294: the onmessage handler of worker w receives its reply; the
\* state of an unmounted component is no longer updated
OnWorkerMessage ==
  \E w \in 1..Len(workers), success \in BOOLEAN :
    /\ workers[w].state = "running"
    /\ workers' = [workers EXCEPT ![w].state = IF success THEN "succeeded" ELSE "failed"]
    /\ IF mounted
       THEN /\ analyticsResult' = IF success THEN w ELSE analyticsResult
            /\ error' = IF success THEN error ELSE "Simulation error"
            /\ loading' = FALSE
       ELSE UNCHANGED <<analyticsResult, error, loading>>
    /\ UNCHANGED <<stockData, simulationParams, fetches, apiKey, mounted>>
    /\ UNCHANGED <<analyticsVars, workerVars>>

\* lines 296-299: the onerror handler of worker w
OnWorkerError ==
  \E w \in 1..Len(workers) :
    /\ workers[w].state = "running"
    /\ workers' = [workers EXCEPT ![w].state = "failed"]
    /\ IF mounted
       THEN /\ error' = "Simulation failed"
            /\ loading' = FALSE
       ELSE UNCHANGED <<error, loading>>
    /\ UNCHANGED <<stockData, simulationParams, analyticsResult, fetches, apiKey, mounted>>
    /\ UNCHANGED <<analyticsVars, workerVars>>

\* lines 313-319: the cleanup at unmount terminates workerRef.current only
Unmount ==
  /\ mounted
  /\ mounted' = FALSE
  /\ workers' =
       IF Len(workers) > 0 /\ workers[Len(workers)].state = "running"
       THEN [workers EXCEPT ![Len(workers)].state = "terminated"]
       ELSE workers
  /\ UNCHANGED <<stockData, simulationParams, analyticsResult, loading, error,
                 fetches, apiKey>>
  /\ UNCHANGED <<analyticsVars, workerVars>>

(***************************************************************************)
(* Specifications                                                          *)
(***************************************************************************)
\* one call of runMonteCarloSimulation
Init ==
  /\ MCInit /\ RetIdle /\ GarchIdle /\ StressIdle /\ PerfIdle
  /\ MarkovIdle /\ AnalyzeIdle /\ RecIdle /\ TrendIdle
  /\ WorkerIdle /\ DashIdle

Next ==
  \/ Reject \/ Accept \/ SimulateOnePath
  \/ BeginStatistics \/ FinishStatistics

Spec == Init /\ [][Next]_vars

\* one call of calculateReturns
InitReturns ==
  /\ MCIdle /\ RetInit /\ GarchIdle /\ StressIdle /\ PerfIdle
  /\ MarkovIdle /\ AnalyzeIdle /\ RecIdle /\ TrendIdle
  /\ WorkerIdle /\ DashIdle

NextReturns ==
  \/ ReturnsTooShort \/ ReturnsEnter \/ ReturnsBadClose
  \/ ReturnsStep \/ ReturnsReturn

SpecReturns == InitReturns /\ [][NextReturns]_vars

\* one call of calculateGARCHVolatility
InitGarch ==
  /\ MCIdle /\ RetIdle /\ GarchInit /\ StressIdle /\ PerfIdle
  /\ MarkovIdle /\ AnalyzeIdle /\ RecIdle /\ TrendIdle
  /\ WorkerIdle /\ DashIdle

NextGarch ==
  \/ GarchNoData \/ GarchBadParams \/ GarchSingle
  \/ GarchSeed \/ GarchStep \/ GarchReturn

SpecGarch == InitGarch /\ [][NextGarch]_vars

\* one call of runStressTest
InitStress ==
  /\ StressInit /\ RetIdle /\ GarchIdle /\ PerfIdle
  /\ MarkovIdle /\ AnalyzeIdle /\ RecIdle /\ TrendIdle
  /\ WorkerIdle /\ DashIdle

NextStress == StressEnter \/ StressScenario \/ StressReturn

SpecStress == InitStress /\ [][NextStress]_vars

\* one call of calculatePerformanceMetrics
InitPerf ==
  /\ MCIdle /\ PerfInit /\ GarchIdle /\ StressIdle
  /\ MarkovIdle /\ AnalyzeIdle /\ RecIdle /\ TrendIdle
  /\ WorkerIdle /\ DashIdle

NextPerf == PerfThrow \/ PerfReturn

SpecPerf == InitPerf /\ [][NextPerf]_vars

\* one call of generateMarkovRegime
InitMarkov ==
  /\ MarkovInit /\ RetIdle /\ GarchIdle /\ StressIdle /\ PerfIdle
  /\ AnalyzeIdle /\ RecIdle /\ TrendIdle
  /\ WorkerIdle /\ DashIdle

NextMarkov ==
  \/ MarkovNoData \/ MarkovBadSwitchProb \/ MarkovEnter
  \/ MarkovStep \/ MarkovReturn

SpecMarkov == InitMarkov /\ [][NextMarkov]_vars

\* one call of analyzeRegime
InitAnalyze ==
  /\ MCIdle /\ RetIdle /\ GarchIdle /\ StressIdle /\ PerfIdle
  /\ MarkovIdle /\ AnalyzeInit /\ RecIdle /\ TrendIdle
  /\ WorkerIdle /\ DashIdle

NextAnalyze == AnalyzeThrow \/ AnalyzeReturn

SpecAnalyze == InitAnalyze /\ [][NextAnalyze]_vars

\* one call of generateRecommendations
InitRec ==
  /\ MCIdle /\ GarchIdle /\ StressIdle /\ PerfIdle /\ MarkovIdle
  /\ AnalyzeIdle /\ RecInit /\ TrendIdle
  /\ WorkerIdle /\ DashIdle

NextRec == RecThrow \/ RecReturn

SpecRec == InitRec /\ [][NextRec]_vars

\* one call of calculateTrendAndDrift
InitTrend ==
  /\ MCIdle /\ GarchIdle /\ StressIdle /\ PerfIdle /\ MarkovIdle
  /\ AnalyzeIdle /\ RecIdle /\ TrendInit
  /\ WorkerIdle /\ DashIdle

NextTrend == TrendTooShort \/ TrendBadTheta \/ TrendBadClose \/ TrendReturn

SpecTrend == InitTrend /\ [][NextTrend]_vars

AnalyticsIdle ==
  /\ MCIdle /\ RetIdle /\ GarchIdle /\ StressIdle /\ PerfIdle
  /\ MarkovIdle /\ AnalyzeIdle /\ RecIdle /\ TrendIdle

\* one message handled by the simulation worker
InitWorker == AnalyticsIdle /\ WorkerInit /\ DashIdle

NextWorker == WorkerPostResult \/ WorkerPostError

SpecWorker == InitWorker /\ [][NextWorker]_vars

\* one session of the dashboard
InitDash == AnalyticsIdle /\ WorkerIdle /\ DashInit

NextDash ==
  \/ FetchNoApiKey \/ FetchStart \/ FetchResolve \/ FetchReject
  \/ UpdateSimulationParam \/ OnWorkerMessage \/ OnWorkerError \/ Unmount

SpecDash == InitDash /\ [][NextDash]_vars

(***************************************************************************)
(* Properties of runMonteCarloSimulation (checked under Spec)              *)
(***************************************************************************)
\* the terminal price of the i-th path built
Terminal(i) == paths[i][Len(paths[i])]

\* C1: every path built has numSteps + 1 prices and starts with initialPrice;
\* when the outer loop is done there are exactly numPaths paths, and these
\* are the paths of the result returned.
C1_PathsShape ==
  /\ \A i \in 1..Len(paths) :
       /\ Len(paths[i]) = params.numSteps + 1
       /\ paths[i][1] = initialPrice
  /\ pc \in {"statistics", "returned"} => Len(paths) = params.numPaths
  /\ pc = "returned" => result.paths = paths /\ Len(result.paths) = params.numPaths

C1_Witness ==
  /\ pc = "returned"
  /\ Len(result.paths) = MinPaths + 1
  /\ Len(result.paths[1]) = MinSteps + 2

\* C2: every price of every path, the seed at position 0 included, is at
\* least 0.01, for every accepted initialPrice.
C2_EveryPriceAtLeastMinPrice ==
  \A i \in 1..Len(paths) :
    \A j \in 1..Len(paths[i]) : Ge(paths[i][j], Num(1, -2))

\* the bounds a call has to meet, as the specification lists them
OutOfBounds ==
  \/ Lt(params.alpha, Zero) \/ Gt(params.alpha, One)
  \/ Lt(params.beta, Zero) \/ Gt(params.beta, One)
  \/ ~Lt(Add(params.alpha, params.beta), One)
  \/ Lt(params.theta, Zero) \/ Gt(params.theta, One)
  \/ Lt(params.switchProb, Zero) \/ Gt(params.switchProb, One)
  \/ params.numPaths < 100 \/ params.numPaths > 10000
  \/ params.numSteps < 10 \/ params.numSteps > 1000
  \/ Le(initialPrice, Zero)
  \/ Le(initialVolatility, Zero)

RECURSIVE SumCounts(_, _)
SumCounts(h, n) == IF n = 0 THEN 0 ELSE SumCounts(h, n - 1) + h[n].count

\* C4: every accepted simulation ends with a result whose histogram has
\* exactly 50 bins, whose counts sum to numPaths and whose last bin counts the
\* maximum terminal price, also when all terminal prices are equal.
C4_HistogramForEveryRun ==
  /\ pc = "thrown" => thrown # "TypeError"
  /\ pc = "returned" =>
       /\ Len(result.histogram) = 50
       /\ SumCounts(result.histogram, 50) = params.numPaths
       /\ result.histogram[50].count >= 1

\* C5: percentiles[p] is the element at index floor(p/100 * (numPaths - 1)) of
\* the terminal prices in ascending order, so a terminal price of some path,
\* and the percentiles are non-decreasing in p.
C5_Percentiles ==
  pc = "returned" =>
    LET n == params.numPaths
        levels == <<5, 10, 25, 50, 75, 90, 95>>
    IN /\ Len(sortedPrices) = n
       /\ \A i \in 1..(n - 1) : Le(sortedPrices[i], sortedPrices[i + 1])
       /\ \A i \in 1..n :
            Cardinality({j \in 1..n : sortedPrices[j] = sortedPrices[i]})
              = Cardinality({j \in 1..n : Terminal(j) = sortedPrices[i]})
       /\ \A k \in 1..7 :
            /\ result.percentiles[k] = sortedPrices[((levels[k] * (n - 1)) \div 100) + 1]
            /\ \E i \in 1..n : result.percentiles[k] = Terminal(i)
       /\ \A k \in 1..6 : Le(result.percentiles[k], result.percentiles[k + 1])

C5_Witness ==
  /\ pc = "returned"
  /\ Lt(result.percentiles[1], result.percentiles[4])
  /\ Lt(result.percentiles[4], result.percentiles[7])

\* C6: upside20 is the fraction of terminal prices at or above 1.2 times
\* initialPrice, downside10 the fraction at or below 0.9 times initialPrice,
\* and each lies in [0, 1].
C6_Probabilities ==
  pc = "returned" =>
    LET n == params.numPaths
        up == Cardinality({i \in 1..n : Ge(Terminal(i), Mul(initialPrice, Num(12, -1)))})
        down == Cardinality({i \in 1..n : Le(Terminal(i), Mul(initialPrice, Num(9, -1)))})
    IN /\ result.probabilities.upside20 = Div(FromInt(up), FromInt(n))
       /\ result.probabilities.downside10 = Div(FromInt(down), FromInt(n))
       /\ Ge(result.probabilities.upside20, Zero)
       /\ Le(result.probabilities.upside20, One)
       /\ Ge(result.probabilities.downside10, Zero)
       /\ Le(result.probabilities.downside10, One)

C6_Witness ==
  /\ pc = "returned"
  /\ Gt(result.probabilities.downside10, Zero)
  /\ Lt(result.probabilities.downside10, One)

\* the standard normal of step j of path k (both counted from 0), when every
\* step takes two draws and the paths are simulated in order
NormalOfStep(k, j) ==
  BoxMuller[DrawAt(stream, 2 * (params.numSteps * k + j)),
            DrawAt(stream, 2 * (params.numSteps * k + j) + 1)]

C28_TailRiskOrdered ==
  pc = "returned" =>
    /\ Ge(result.var99, result.var95)
    /\ Ge(result.expectedShortfall95, result.var95)
    /\ Ge(result.expectedShortfall99, result.var99)
    /\ Ge(result.expectedShortfall99, result.expectedShortfall95)

\* path k (counted from 0) replayed from the arguments alone: the prices after
\* the steps j..numSteps-1, given the price and volatility before step j
RECURSIVE ReplayFrom(_, _, _, _)
ReplayFrom(k, j, price, vol) ==
  IF j >= params.numSteps THEN <<>>
  ELSE LET ret == StepReturn(vol, drift, NormalOfStep(k, j))
           next == StepPrice(price, ret)
       IN <<next>> \o ReplayFrom(k, j + 1, next,
                                 StepVolatility(vol, ret, Omega(initialVolatility, params),
                                                params))

\* C22: every path starts from the price initialPrice and the volatility
\* initialVolatility, whatever the paths before it did: the path just built is
\* the one obtained from the arguments and the 2 * numSteps draws of that path
\* alone.
C22_PathsStartAfresh ==
  (pc = "paths" /\ Len(paths) > 0) =>
    \A k \in {Len(paths) - 1} :
      paths[k + 1] = <<initialPrice>> \o ReplayFrom(k, 0, initialPrice, initialVolatility)

\* a second path that differs from the first, which moved away from the
\* starting price
C22_Witness ==
  /\ pc = "paths"
  /\ Len(paths) = 2
  /\ paths[1][Len(paths[1])] # initialPrice
  /\ paths[2][1] = initialPrice
  /\ paths[2] # paths[1]

\* C13: in every result returned by runMonteCarloSimulation var95, var99,
\* expectedShortfall95 and expectedShortfall99 are all at least 0.
C13_RiskFiguresNonNegative ==
  pc = "returned" =>
    /\ Ge(result.var95, Zero)
    /\ Ge(result.var99, Zero)
    /\ Ge(result.expectedShortfall95, Zero)
    /\ Ge(result.expectedShortfall99, Zero)

\* the mean of the k lowest terminal prices
MeanOfLowest(k) == Div(SumFirst(sortedPrices, k), FromInt(k))

\* C14: var95 and var99 are initialPrice minus the ascending terminal prices'
\* elements at floor(0.05 * numPaths) and floor(0.01 * numPaths); both indices
\* are inside the array for every numPaths in [100, 10000]; each expected
\* shortfall is initialPrice minus the mean of the index + 1 lowest terminal
\* prices.
C14_VaRAndShortfall ==
  pc = "returned" =>
    LET n == params.numPaths
        i95 == (5 * n) \div 100
        i99 == n \div 100
    IN /\ Len(sortedPrices) = n
       /\ \A i \in 1..(n - 1) : Le(sortedPrices[i], sortedPrices[i + 1])
       /\ result.var95 = Sub(initialPrice, sortedPrices[i95 + 1])
       /\ result.var99 = Sub(initialPrice, sortedPrices[i99 + 1])
       /\ result.expectedShortfall95 = Sub(initialPrice, MeanOfLowest(i95 + 1))
       /\ result.expectedShortfall99 = Sub(initialPrice, MeanOfLowest(i99 + 1))
       /\ \A m \in 100..10000 :
            Var95Index(m) \in 0..(m - 1) /\ Var99Index(m) \in 0..(m - 1)

C14_Witness ==
  /\ pc = "returned"
  /\ Gt(result.var95, Zero)
  /\ Gt(result.var99, result.var95)
  /\ Gt(result.expectedShortfall95, result.var95)

(***************************************************************************)
(* Properties of calculateReturns (checked under SpecReturns)              *)
(***************************************************************************)
\* C8: calculateReturns returns prices.length - 1 returns, and the return at
\* index i is the logarithm of prices[i + 1] / prices[i]: the input order is
\* kept and no other price enters it.
C8_ReturnsShape ==
  /\ retPc = "returned" => Len(returns) = Len(prices) - 1
  /\ retPc \in {"loop", "returned"} =>
       \A k \in 1..Len(returns) : returns[k] = Ln(Div(prices[k + 1], prices[k]))

C8_Witness ==
  /\ retPc = "returned"
  /\ prices = <<FromInt(100), FromInt(110), FromInt(100)>>
  /\ Len(returns) = 2
  /\ returns[1] # returns[2]

\* C9: calculateReturns returns nothing when it is given fewer than two price
\* points or a close that is not positive, at whichever position, the last
\* included.
C9_BadPricesRejected ==
  retPc = "returned" =>
    /\ Len(prices) >= 2
    /\ \A k \in 1..Len(prices) : Gt(prices[k], Zero)

(***************************************************************************)
(* Properties of calculateGARCHVolatility (checked under SpecGarch)        *)
(***************************************************************************)
\* C10: for a non-empty return series and accepted (alpha, beta),
\* calculateGARCHVolatility returns as many volatilities as there are returns,
\* each strictly greater than 0.
C10_VolatilitiesPositive ==
  garchPc = "returned" =>
    /\ Len(volatilities) = Len(garchReturns)
    /\ \A k \in 1..Len(volatilities) : Gt(volatilities[k], Zero)
\* C11: for a non-empty return series calculateGARCHVolatility throws exactly
\* when alpha or beta is below 0 or above 1 or alpha + beta is at least 1,
\* which are exactly the (alpha, beta) that validateParams refuses.
C11_GarchParameterCheck ==
  (garchPc \in {"loop", "returned", "thrown"} /\ Len(garchReturns) > 0) =>
    /\ (garchPc = "thrown") <=>
         \/ Lt(garchAlpha, Zero) \/ Gt(garchAlpha, One)
         \/ Lt(garchBeta, Zero) \/ Gt(garchBeta, One)
         \/ Ge(Add(garchAlpha, garchBeta), One)
    /\ (garchPc = "thrown") <=>
         validateParams([alpha |-> garchAlpha, beta |-> garchBeta,
                         theta |-> Zero, switchProb |-> Zero,
                         numPaths |-> 100, numSteps |-> 10]) # ""

C11_Witness ==
  /\ garchPc = "thrown"
  /\ Len(garchReturns) > 0
  /\ Gt(garchAlpha, One)
  /\ Ge(garchBeta, Zero)

\* C12: every volatility returned by calculateGARCHVolatility for a series of
\* finite returns, element 0 and the single-return case included, is the
\* square root of a variance in [1e-8, 1e4], that is, it lies in [1e-4, 1e2].
C12_VolatilitiesBounded ==
  (garchPc = "returned" /\ \A k \in 1..Len(garchReturns) : IsFinite(garchReturns[k])) =>
    \A k \in 1..Len(volatilities) :
      Ge(volatilities[k], Num(1, -4)) /\ Le(volatilities[k], Num(1, 2))

(***************************************************************************)
(* Properties of runStressTest (checked under SpecStress)                  *)
(***************************************************************************)
\* the stream position at which the simulation of scenario i (counted from 1)
\* starts when every earlier scenario has run a whole simulation
ScenarioStart(i) == 2 * params.numSteps * params.numPaths * (i - 1)

\* C15: runStressTest returns one result per scenario, in input order, with
\* results[i].scenario = scenarios[i]; the risk figures of results[i] are
\* those of one simulation run with initialVolatility * volatilityShock,
\* drift + driftShock and the caller's params, whatever correlationShock is;
\* the caller's params are never modified.
C15_StressResults ==
  /\ [](stressPc = "returned" =>
          /\ Len(results) = Len(scenarios)
          /\ \A i \in 1..Len(scenarios) :
               /\ results[i].scenario = scenarios[i]
               /\ \A out \in {runMonteCarloSimulation(
                                initialPrice, params,
                                Mul(initialVolatility, scenarios[i].volatilityShock),
                                Add(drift, scenarios[i].driftShock),
                                stream, ScenarioStart(i))} :
                    /\ out.thrown = ""
                    /\ results[i].var95 = out.result.var95
                    /\ results[i].var99 = out.result.var99
                    /\ results[i].expectedShortfall95 = out.result.expectedShortfall95
                    /\ results[i].expectedShortfall99 = out.result.expectedShortfall99)
  /\ [][params' = params]_vars

C15_Witness ==
  /\ stressPc = "returned"
  /\ Len(results) = 2
  /\ results[1].scenario.name = "crash"
  /\ results[2].scenario.name = "contagion"
  /\ Gt(results[1].var95, Zero)
  /\ Gt(results[2].maxDrawdown, Zero)

\* C20: when params or initialPrice are out of bounds, or some scenario gives
\* a stressed volatility that is not positive, runStressTest returns nothing
\* and throws before the simulation of any scenario is run (no draw is taken),
\* for every list of scenarios, the empty one included.
C20_StressValidatesEagerly ==
  (\/ validateParams(params) # ""
   \/ Le(initialPrice, Zero)
   \/ \E i \in 1..Len(scenarios) :
        Le(Mul(initialVolatility, scenarios[i].volatilityShock), Zero)) =>
    /\ stressPc # "returned"
    /\ rngPos = 0
    /\ results = <<>>

\* the fractional declines (path[i] - path[j]) / path[i] over the index pairs
\* i <= j of every path
Declines(ps) ==
  UNION {{Div(Sub(ps[k][i], ps[k][j]), ps[k][i]) : i \in 1..j} :
           k \in 1..Len(ps), j \in 1..Len(ps[1])}

\* the fraction of the paths that end strictly below price0
FractionBelow(ps, price0) ==
  Div(FromInt(Cardinality({k \in 1..Len(ps) : Lt(ps[k][Len(ps[k])], price0)})),
      FromInt(Len(ps)))

\* C21: in each StressResult probabilityOfLoss is the fraction of terminal
\* prices strictly below initialPrice, and maxDrawdown is the largest
\* fractional decline (path[i] - path[j]) / path[i] over all paths and index
\* pairs i <= j, a value in [0, 1).
C21_LossAndDrawdown ==
  stressPc = "returned" =>
    \A n \in 1..Len(results) :
      \A out \in {runMonteCarloSimulation(
                       initialPrice, params,
                       Mul(initialVolatility, scenarios[n].volatilityShock),
                       Add(drift, scenarios[n].driftShock),
                       stream, ScenarioStart(n))} :
        /\ results[n].probabilityOfLoss = FractionBelow(out.result.paths, initialPrice)
        /\ \A d \in Declines(out.result.paths) : Le(d, results[n].maxDrawdown)
        /\ results[n].maxDrawdown \in Declines(out.result.paths)
        /\ Ge(results[n].maxDrawdown, Zero)
        /\ Lt(results[n].maxDrawdown, One)

(***************************************************************************)
(* Properties of calculatePerformanceMetrics (checked under SpecPerf)      *)
(***************************************************************************)
\* C16: when benchmarkReturns is absent or its length differs from the number
\* of returns (prices.length - 1), calculatePerformanceMetrics returns beta = 1,
\* alpha = 0, informationRatio = 0 and treynorRatio = 0, and the mismatch is
\* no error: the call throws only for prices that calculateReturns refuses.
C16_BenchmarkDefaults ==
  /\ (perfPc = "returned" /\
      (~benchmarkReturns.given \/ Len(benchmarkReturns.values) # Len(prices) - 1)) =>
       /\ metrics.beta = One
       /\ metrics.alpha = Zero
       /\ metrics.informationRatio = Zero
       /\ metrics.treynorRatio = Zero
  /\ perfPc = "thrown" =>
       \/ Len(prices) < 2
       \/ \E i \in 1..(Len(prices) - 1) : Le(prices[i], Zero)

C16_Witness ==
  /\ perfPc = "returned"
  /\ benchmarkReturns.given
  /\ Len(benchmarkReturns.values) = 2
  /\ Len(prices) = 2
  /\ metrics.beta = One

\* C27: for prices of at least 2 points with every close > 0,
\* calculatePerformanceMetrics returns a Sharpe ratio that is not NaN: neither
\* the divisor returns.length - 1 of the sample variance nor the annualized
\* volatility the ratio is divided by is zero.
C27_SharpeDefined ==
  (perfPc \in {"thrown", "returned"} /\ Len(prices) >= 2
     /\ \A i \in 1..Len(prices) : Gt(prices[i], Zero)) =>
    /\ perfPc = "returned"
    /\ ~IsNaN(metrics.sharpeRatio)
    /\ \A rs \in {calculateReturns(prices).returns} :
         /\ Len(rs) - 1 # 0
         /\ Mul(Sqrt(SampleVar(rs)), Sqrt252) # Zero

\* the same prices with three points or more that are not all equal: the
\* Sharpe ratio is a finite number
VaryingPricesGiveSharpe ==
  (perfPc \in {"thrown", "returned"} /\ Len(prices) >= 3
     /\ (\A i \in 1..Len(prices) : Gt(prices[i], Zero))
     /\ (\E i \in 1..Len(prices) : prices[i] # prices[1])) =>
    /\ perfPc = "returned"
    /\ IsFinite(metrics.sharpeRatio)

(***************************************************************************)
(* Properties of generateMarkovRegime (checked under SpecMarkov)           *)
(***************************************************************************)
\* C18: for a non-empty return series and a switchProb in [0, 1] the call does
\* not throw, and the sequence it returns has the length of the returns, holds
\* only +1 and -1, and starts with +1 when the last return is >= 0 and with -1
\* when the last return is < 0.
C18_MarkovRegimeShape ==
  LET n == Len(markovReturns)
      valid == n > 0 /\ Ge(switchProb, Zero) /\ Le(switchProb, One)
  IN /\ (valid => markovThrown = "")
     /\ (markovPc = "returned" /\ valid) =>
          /\ Len(regimes) = n
          /\ \A t \in 1..Len(regimes) : regimes[t] \in {1, -1}
          /\ Ge(markovReturns[n], Zero) => regimes[1] = 1
          /\ Lt(markovReturns[n], Zero) => regimes[1] = -1

\* a returned sequence of both labels whose first label follows the last
\* return (a loss) and not the first (a gain)
C18_Witness ==
  /\ markovPc = "returned"
  /\ Len(markovReturns) >= 2
  /\ Gt(markovReturns[1], Zero)
  /\ Lt(markovReturns[Len(markovReturns)], Zero)
  /\ regimes[1] = -1
  /\ \E t \in 1..Len(regimes) : regimes[t] = 1

\* C23: in the sequence returned, element t+1 differs from element t exactly
\* when the uniform draw taken at step t is below switchProb; so switchProb = 0
\* gives a constant sequence and switchProb = 1 a strictly alternating one.
C23_SwitchPerDraw ==
  markovPc = "returned" =>
    /\ rngPos = Len(markovReturns)
    /\ \A t \in 1..(Len(regimes) - 1) :
         (regimes[t + 1] # regimes[t]) <=>
           Lt(Div(FromInt(stream[t]), FromInt(8)), switchProb)
    /\ switchProb = Zero =>
         \A t \in 1..(Len(regimes) - 1) : regimes[t + 1] = regimes[t]
    /\ switchProb = One =>
         \A t \in 1..(Len(regimes) - 1) : regimes[t + 1] = -regimes[t]

\* a sequence of three labels for switchProb = 0.5: the first draw was not
\* below it, the second was
C23_Witness ==
  /\ markovPc = "returned"
  /\ switchProb = Half
  /\ Len(regimes) = 3
  /\ regimes[2] = regimes[1]
  /\ regimes[3] # regimes[2]

(***************************************************************************)
(* Properties of analyzeRegime (checked under SpecAnalyze)                 *)
(***************************************************************************)
\* C17: for a non-empty regimes array of +1/-1 labels and returns of the same
\* length, analyzeRegime returns, bullMarketProbability + bearMarketProbability
\* is 1, and the two values are the fractions of +1 and of -1 labels.
C17_ProbabilitiesSumToOne ==
  LET n == Len(analyzeRegimes)
  IN (analyzePc # "call" /\ n > 0 /\ Len(analyzeReturns) = n) =>
       /\ analyzePc = "returned"
       /\ QuotientsSumToOne(analysis.bullMarketProbability,
                            analysis.bearMarketProbability)
       /\ analysis.bullMarketProbability =
            [num |-> Cardinality({i \in 1..n : analyzeRegimes[i] = 1}), den |-> n]
       /\ analysis.bearMarketProbability =
            [num |-> Cardinality({i \in 1..n : analyzeRegimes[i] = -1}), den |-> n]

\* an analysis of three labels that begin with a bear label, two bull labels
\* and one bear label: the probabilities are 2/3 and 1/3
C17_Witness ==
  /\ analyzePc = "returned"
  /\ Len(analyzeRegimes) = 3
  /\ analyzeRegimes[1] = -1
  /\ analysis.bullMarketProbability = [num |-> 2, den |-> 3]
  /\ analysis.bearMarketProbability = [num |-> 1, den |-> 3]

\* the sum of a sequence of integers
RECURSIVE SumOf(_)
SumOf(ds) == IF ds = <<>> THEN 0 ELSE ds[1] + SumOf(Tail(ds))

\* the number of maximal runs of the label sgn in rg
RunCount(rg, sgn) ==
  Cardinality({i \in 1..Len(rg) : rg[i] = sgn /\ (i = 1 \/ rg[i - 1] # sgn)})

\* the number of labels sgn in rg
LabelCount(rg, sgn) == Cardinality({i \in 1..Len(rg) : rg[i] = sgn})

\* the run lengths found for rg are those of its maximal runs, and the
\* durations of the analysis an are the labels of each kind divided by the runs
\* of that kind (0 when there is no run)
RunLengthsMatch(rg, an) ==
  LET found == RegimeDurations(rg)
      mean(sgn) == IF RunCount(rg, sgn) > 0
                   THEN Div(FromInt(LabelCount(rg, sgn)), FromInt(RunCount(rg, sgn)))
                   ELSE Zero
  IN /\ SumOf(found.bull) + SumOf(found.bear) = Len(rg)
     /\ SumOf(found.bull) = LabelCount(rg, 1)
     /\ SumOf(found.bear) = LabelCount(rg, -1)
     /\ Len(found.bull) = RunCount(rg, 1)
     /\ Len(found.bear) = RunCount(rg, -1)
     /\ Len(found.bull) - Len(found.bear) \in {-1, 0, 1}
     /\ an.regimeDuration.bull = mean(1)
     /\ an.regimeDuration.bear = mean(-1)

\* C24: analyzeRegime splits the labels into maximal runs of equal consecutive
\* labels: the run lengths sum to regimes.length, bull and bear runs alternate,
\* and regimeDuration.bull (bear) is the number of +1 (-1) labels divided by
\* the number of bull (bear) runs, the final run included.
C24_RunLengths ==
  analyzePc = "returned" => RunLengthsMatch(analyzeRegimes, analysis)

\* analyzeRegime on a non-empty array of labels: the run lengths are as C24
\* says
NonEmptyLabelsGiveRunLengths ==
  (analyzePc = "returned" /\ Len(analyzeRegimes) > 0) =>
    RunLengthsMatch(analyzeRegimes, analysis)

\* C25: for non-empty returns and +1/-1 labels of the same length every field
\* of the RegimeAnalysis returned is a defined number, never NaN, and a regime
\* with no labelled index has duration, mean return and volatility 0.
C25_AnalysisNeverNaN ==
  (analyzePc = "returned" /\ Len(analyzeRegimes) > 0) =>
    /\ analysis.bullMarketProbability.den > 0
    /\ analysis.bearMarketProbability.den > 0
    /\ \A field \in {analysis.regimeDuration, analysis.regimeVolatility,
                      analysis.regimeReturns} :
         /\ ~IsNaN(field.bull)
         /\ ~IsNaN(field.bear)
         /\ LabelCount(analyzeRegimes, 1) = 0 => field.bull = Zero
         /\ LabelCount(analyzeRegimes, -1) = 0 => field.bear = Zero

\* the same analysis for regimes that each label two returns or none: the part
\* of C25 that holds
TwoOrNoLabelsGiveNumbers ==
  (analyzePc = "returned" /\ Len(analyzeRegimes) > 0
     /\ LabelCount(analyzeRegimes, 1) # 1 /\ LabelCount(analyzeRegimes, -1) # 1) =>
    \A field \in {analysis.regimeDuration, analysis.regimeVolatility,
                   analysis.regimeReturns} :
      /\ IsFinite(field.bull) /\ IsFinite(field.bear)
      /\ LabelCount(analyzeRegimes, 1) = 0 => field.bull = Zero
      /\ LabelCount(analyzeRegimes, -1) = 0 => field.bear = Zero

(***************************************************************************)
(* Properties of generateRecommendations (checked under SpecRec)           *)
(***************************************************************************)
\* the integer category scores of the call in progress, recomputed
CategoryScores ==
  [technical |-> SumDeltas(TechnicalSteps(indicators, currentPrice)),
   fundamental |-> SumDeltas(FundamentalSteps(fundamentals)),
   risk |-> CHOOSE d \in {RiskSignal(v).delta : v \in {calculateVolatility(prices)}} :
              TRUE]

\* a recommendation is the one due for the score num / den (den > 0): BUY exactly
\* from 1.5 up, SELL exactly from -1.5 down, HOLD between; the confidence is the
\* integer nearest to min(90, 70 + 10|score|) or to 50 + 20|score|, within 0..100
RecommendationFollowsScore(rec, num, den) ==
  LET mag == IF num < 0 THEN -num ELSE num
      firm == 2 * mag >= 3 * den
      due == IF firm
             THEN (IF 70 * den + 10 * mag > 90 * den THEN 90
                   ELSE (2 * (70 * den + 10 * mag) + den) \div (2 * den))
             ELSE (2 * (50 * den + 20 * mag) + den) \div (2 * den)
  IN /\ (rec.action = "BUY") <=> (2 * num >= 3 * den)
     /\ (rec.action = "SELL") <=> (2 * num <= -3 * den)
     /\ (rec.action = "HOLD") <=> (2 * num < 3 * den /\ 2 * num > -3 * den)
     /\ rec.confidence = due
     /\ rec.confidence \in 0..100
     /\ rec.riskLevel \in {"LOW", "MEDIUM", "HIGH"}
     /\ rec.timeHorizon \in {"SHORT", "MEDIUM", "LONG"}

\* C19: each of the four recommendations returned has action BUY exactly when
\* its score is >= 1.5, SELL exactly when it is <= -1.5 and HOLD otherwise, an
\* integer confidence in [0, 100], a riskLevel in {LOW, MEDIUM, HIGH} and a
\* timeHorizon in {SHORT, MEDIUM, LONG}; the score of the overall recommendation
\* is the mean of the three category scores.
C19_RecommendationsFollowScores ==
  recPc = "returned" =>
    \A s \in {CategoryScores} :
      /\ RecommendationFollowsScore(recommendations.technical, s.technical, 1)
      /\ RecommendationFollowsScore(recommendations.fundamental, s.fundamental, 1)
      /\ RecommendationFollowsScore(recommendations.risk, s.risk, 1)
      /\ RecommendationFollowsScore(recommendations.overall,
                                    s.technical + s.fundamental + s.risk, 3)

\* an analysis whose categories disagree (technical BUY, fundamental SELL) and
\* whose overall score of 1/3 or -1/3 gives HOLD with confidence 57
C19_Witness ==
  /\ recPc = "returned"
  /\ recommendations.technical.action = "BUY"
  /\ recommendations.fundamental.action = "SELL"
  /\ recommendations.overall.action = "HOLD"
  /\ recommendations.overall.confidence = 57

(***************************************************************************)
(* Properties of calculateTrendAndDrift (checked under SpecTrend)          *)
(***************************************************************************)
\* C26: calculateTrendAndDrift fails only when theta is outside [0, 1] or some
\* close is <= 0; for an input of n <= 1 price points (regression denominator
\* 0) it does not fail but returns the fallback trend = last close, drift = 0.
C26_TrendFallback ==
  trendPc \in {"thrown", "returned"} =>
    /\ trendThrown # "" =>
         \/ Lt(trendTheta, Zero) \/ Gt(trendTheta, One)
         \/ \E i \in 1..Len(prices) : Le(prices[i], Zero)
    /\ (Len(prices) = 1 /\ Ge(trendTheta, Zero) /\ Le(trendTheta, One)
          /\ Gt(prices[1], Zero)) =>
         trendResult = [trend |-> prices[1], drift |-> Zero]

\* calculateTrendAndDrift on two or more price points fails only for a theta
\* outside [0, 1] or a close <= 0, and what it returns then is no fallback: the
\* regression denominator is at least 0.5
TwoPricesGiveARegression ==
  (trendPc \in {"thrown", "returned"} /\ Len(prices) >= 2) =>
    /\ trendThrown # "" <=>
         \/ Lt(trendTheta, Zero) \/ Gt(trendTheta, One)
         \/ \E i \in 1..Len(prices) : Le(prices[i], Zero)
    /\ trendPc = "returned" => Ge(RegressionSums(prices).denominator, Half)

\* calculateGARCHVolatility on finite returns: the volatilities returned are as
\* many as the returns and each is strictly greater than 0.
FiniteReturnsGivePositiveVolatilities ==
  (garchPc = "returned" /\ \A k \in 1..Len(garchReturns) : IsFinite(garchReturns[k])) =>
    /\ Len(volatilities) = Len(garchReturns)
    /\ \A k \in 1..Len(volatilities) : Gt(volatilities[k], Zero)

(***************************************************************************)
(* Claims about the dashboard and its simulation worker                    *)
(***************************************************************************)
\* C29: while the most recently started simulation has not replied, loading is
\* true; and once it has replied with a result, the analyticsResult displayed
\* is its result, whatever the earlier workers reply and whenever they do.
C29_LatestSimulationWins ==
  (mounted /\ Len(workers) > 0) =>
    /\ workers[Len(workers)].state = "running" => loading
    /\ workers[Len(workers)].state = "succeeded" => analyticsResult = Len(workers)

\* the parts of the worker's pipeline compared with the Analytics functions on
\* the arguments the worker passes them: each accepts or rejects as its
\* counterpart does, and returns what its counterpart returns
ReturnsAgree(data) ==
  \A w \in {workerCalculateReturns(data.prices)} :
    \A a \in {calculateReturns(data.prices)} :
      (w.thrown = "") = (a.thrown = "") /\ w.returns = a.returns

VolatilitiesAgree(data) ==
  \A rs \in {workerCalculateReturns(data.prices)} :
    rs.thrown = "" =>
      \A w \in {workerCalculateGARCHVolatility(rs.returns, data.params.alpha,
                                                data.params.beta)} :
        \A a \in {calculateGARCHVolatility(rs.returns, data.params.alpha,
                                            data.params.beta)} :
          (w.thrown = "") = (a.thrown = "") /\ w.volatilities = a.volatilities

TrendsAgree(data) ==
  \A w \in {workerCalculateTrendAndDrift(data.prices, data.params.theta)} :
    \A a \in {calculateTrendAndDrift(data.prices, data.params.theta)} :
      (w.thrown = "") = (a.thrown = "") /\ w.value = a.value

SimulationsAgree(data, s) ==
  \A rs \in {workerCalculateReturns(data.prices)} :
    rs.thrown = "" =>
      \A vs \in {workerCalculateGARCHVolatility(rs.returns, data.params.alpha,
                                                 data.params.beta)} :
        \A td \in {workerCalculateTrendAndDrift(data.prices, data.params.theta)} :
          (vs.thrown = "" /\ td.thrown = "") =>
            \A vol \in {vs.volatilities[Len(vs.volatilities)]} :
              \A w \in {workerRunMonteCarloSimulation(
                           data.currentPrice, data.params, vol, td.value.drift, s, 0)} :
                \A a \in {runMonteCarloSimulation(
                             data.currentPrice, data.params, vol, td.value.drift, s, 0)} :
                  (w.thrown = "") = (a.thrown = "") /\ w.result = a.result

\* C30: for every message the worker has handled, each function of its
\* pipeline accepts or rejects its arguments as the Analytics function of the
\* same name does and, for the same draws, returns the same value.
C30_WorkerMatchesAnalytics ==
  workerPc = "posted" =>
    /\ ReturnsAgree(workerData)
    /\ VolatilitiesAgree(workerData)
    /\ TrendsAgree(workerData)
    /\ SimulationsAgree(workerData, workerStream)

\* the worker's calculateReturns is Analytics.calculateReturns
WorkerReturnsMatch == workerPc = "posted" => ReturnsAgree(workerData)

====
